---- MODULE Spec2Model ----
(***************************************************************************)
(* Model of @rljson/bs: the multi-tier blob store BsMulti (src/bs-multi.ts) *)
(* over wrapped content-addressable stores (the Bs contract of src/bs.ts).  *)
(*                                                                         *)
(* A BsMulti method is an async function: it issues calls on the wrapped    *)
(* stores and suspends until their promises settle.  The model has one      *)
(* action per method call and one per continuation (the code that runs      *)
(* when an awaited store call settles).  A store call takes effect, and its *)
(* outcome is decided, at the step where it settles.                        *)
(***************************************************************************)
EXTENDS Integers, Sequences, FiniteSets, TLC

(***************************************************************************)
(* Bounds                                                                  *)
(***************************************************************************)
NumStores == 2      \* length of the _stores array given to the constructor

(***************************************************************************)
(* Values                                                                  *)
(***************************************************************************)
\* Blob contents: byte sequences.  <<1>> is the first byte of <<1, 2>>.
Contents == {<<1>>, <<1, 2>>}

\* blobId = SHA256(content): a deterministic, injective digest of the bytes.
RECURSIVE Hash(_)
Hash(c) == IF c = <<>> THEN 0 ELSE c[1] + 3 * Hash(Tail(c))

\* The blob the caller reads and deletes by id; the other content is its
\* first byte, which a ranged read of it returns.
Target == <<1, 2>>
BlobIds == {Hash(Target)}

\* BsMultiBs.priority: two values give every order and a tie of two bindings
Priorities == {0, 1}

\* DownloadBlobOptions.range; NoRange is options === undefined.
NoRange == [start |-> -1, end |-> -1]
Ranges == {NoRange, [start |-> 0, end |-> 1]}

\* BsMultiBs.id: undefined until init() assigns `bs-${idx}`.
Undefined == "undefined"
BsId(idx) == IF idx = 1 THEN "bs-0" ELSE IF idx = 2 THEN "bs-1"
             ELSE IF idx = 3 THEN "bs-2" ELSE "bs-3"

Indexes == [i \in 1..NumStores |-> i]

Min(a, b) == IF a < b THEN a ELSE b

\* All but the last element of a sequence
Front(q) == SubSeq(q, 1, Len(q) - 1)

Range(q) == {q[j] : j \in 1..Len(q)}

(***************************************************************************)
(* Errors.  tier = 0: thrown by BsMulti itself; tier = i: thrown by the     *)
(* store of _stores[i], whose identity and message the error keeps.  The   *)
(* message of NotFound names the blobId (0 in the other messages).         *)
(***************************************************************************)
MsgNotFound == "Blob not found"
MsgFailure == "Store failure"
MsgNoReadable == "No readable Bs available"
MsgNoWritable == "No writable Bs available"

Error(msg, tier, id) == [msg |-> msg, tier |-> tier, blobId |-> id]

\* err.message.includes('Blob not found')
IsNotFound(err) == err.msg = MsgNotFound

(***************************************************************************)
(* State                                                                   *)
(***************************************************************************)
\* op.oks and op.fails record the stores whose write (setBlob, deleteBlob or
\* hot-swap setBlob) the method in progress has seen resolve and reject;
\* op.fails also records the stores whose blobExists was caught failing.
VARIABLES
  stores,    \* BsMulti._stores: sequence of [id, priority, read, write]
  blobs,     \* blobs[i]: the contents held by the store wrapped by _stores[i]
  pending,   \* pending[i]: calls issued to store i and not yet settled, oldest first
  phase,     \* "idle" | "reading" | "awaitAll" | "hotswap" | "listing" | "done"
  op,        \* locals of the BsMulti method call in progress / last returned
  issued,    \* store calls issued by that method call, in order of issue
  ret,       \* outcome of the last returned method call
  hist,      \* the outcomes the caller has received from the calls it awaited
  net        \* the socket layer: listeners, the Bs behind them, events under way

vars == <<stores, blobs, pending, phase, op, issued, ret, hist, net>>

(***************************************************************************)
(* The wrapped stores (Bs contract).  A store serves its calls in the      *)
(* order it received them; any call may fail with a store failure.         *)
(***************************************************************************)
StoreHas(b, i, id) == \E c \in b[i] : Hash(c) = id

BlobOf(b, i, id) == CHOOSE c \in b[i] : Hash(c) = id

\* BlobProperties of content c in store i.  createdAt is the moment store i
\* first stored the blob; each store has its own, so it is modelled as i.
Props(i, c) == [blobId |-> Hash(c), size |-> Len(c), createdAt |-> i]

\* content.subarray(range.start, range.end)
Slice(c, r) == IF r = NoRange THEN c
               ELSE SubSeq(c, r.start + 1, Min(r.end, Len(c)))

\* Bs.getBlob(blobId, options) of store i on success
StoreGetBlob(b, i, id, r) ==
  [content |-> Slice(BlobOf(b, i, id), r), properties |-> Props(i, BlobOf(b, i, id))]

\* Bs.setBlob(content): idempotent insert
StoreSetBlob(b, i, c) == [b EXCEPT ![i] = @ \cup {c}]

\* Bs.deleteBlob(blobId)
StoreDeleteBlob(b, i, id) == [b EXCEPT ![i] = {c \in @ : Hash(c) # id}]

\* The error store i throws for a call on a blob: a failure of the store,
\* or NotFound when it does not hold the blob
StoreError(i, fail, id) ==
  IF fail THEN Error(MsgFailure, i, 0) ELSE Error(MsgNotFound, i, id)

(***************************************************************************)
(* Derived views                                                           *)
(***************************************************************************)
\* a sort that places a binding before the bindings of its priority that
\* precede it in _stores
RECURSIVE SortByPriorityUnstable(_, _)
SortByPriorityUnstable(q, s) ==
  IF q = <<>> THEN <<>>
  ELSE LET sorted == SortByPriorityUnstable(Front(q), s)
           x == q[Len(q)]
           pos == Cardinality({j \in 1..Len(sorted) :
                                 s[sorted[j]].priority < s[x].priority})
       IN SubSeq(sorted, 1, pos) \o <<x>> \o SubSeq(sorted, pos + 1, Len(sorted))

\* Array.prototype.sort((a, b) => a.priority - b.priority): stable
RECURSIVE SortByPriority(_, _)
SortByPriority(q, s) ==
  IF q = <<>> THEN <<>>
  ELSE LET sorted == SortByPriority(Front(q), s)
           x == q[Len(q)]
           pos == Cardinality({j \in 1..Len(sorted) :
                                 s[sorted[j]].priority <= s[x].priority})
       IN SubSeq(sorted, 1, pos) \o <<x>> \o SubSeq(sorted, pos + 1, Len(sorted))

\* readables without the sort by priority
readablesUnsorted == SelectSeq(Indexes, LAMBDA i : stores[i].read)

readables == SortByPriority(SelectSeq(Indexes, LAMBDA i : stores[i].read), stores)

\* writables reduced to the preferred writable
writablesHead ==
  LET w == SortByPriority(SelectSeq(Indexes, LAMBDA i : stores[i].write), stores)
  IN IF w = <<>> THEN <<>> ELSE <<w[1]>>

writables == SortByPriority(SelectSeq(Indexes, LAMBDA i : stores[i].write), stores)

(***************************************************************************)
(* Bookkeeping of calls                                                    *)
(***************************************************************************)
\* stale: the method that issued the call has returned without waiting for it
Call(tier, method, id, c, r) ==
  [tier |-> tier, method |-> method, blobId |-> id, content |-> c,
   range |-> r, stale |-> FALSE]

\* the calls of sequence q are issued, each to its store
Enqueue(pend, q) ==
  [i \in 1..NumStores |-> pend[i] \o SelectSeq(q, LAMBDA p : p.tier = i)]

Dequeue(pend, i) == [pend EXCEPT ![i] = Tail(@)]

MarkStale(pend) ==
  [i \in 1..NumStores |-> [j \in 1..Len(pend[i]) |-> [pend[i][j] EXCEPT !.stale = TRUE]]]

\* an aggregation that waits for no one
AwaitedNone(pend) == {}

\* stores with a call the method in progress is waiting for
AwaitedTiers(pend) == {i \in 1..NumStores : \E j \in 1..Len(pend[i]) : ~pend[i][j].stale}

RECURSIVE SumLen(_, _)
SumLen(pend, n) == IF n = 0 THEN 0 ELSE Len(pend[n]) + SumLen(pend, n - 1)

NoOp == [name |-> "none", blobId |-> 0, content |-> <<>>, range |-> NoRange,
         rds |-> <<>>, k |-> 0, errors |-> <<>>, result |-> <<>>,
         readFrom |-> "", servedBy |-> 0, first |-> <<>>,
         oks |-> {}, fails |-> {}]

NoRet == [status |-> "none", value |-> <<>>, error |-> <<>>]

\* no socket is involved where BsMulti is used over its stores alone
NoNet == <<>>
Ok(v) == [status |-> "ok", value |-> <<v>>, error |-> <<>>]
Err(e) == [status |-> "err", value |-> <<>>, error |-> <<e>>]

Busy == phase \in {"reading", "awaitAll", "hotswap", "listing"}

\* init() has run: every binding has its id
Initialised == \A idx \in 1..NumStores : stores[idx].id = BsId(idx)

\* the caller has run init() before the first use, and calls a method when
\* the previous one has returned and the store calls it left in flight
\* have settled
CanCall == Initialised /\ ~Busy /\ SumLen(pending, NumStores) = 0

\* store i settles its oldest call, which the method in progress awaits
Settles(i) == pending[i] # <<>> /\ ~Head(pending[i]).stale

(***************************************************************************)
(* Initial state: a BsMulti constructed over NumStores bindings without    *)
(* ids, each wrapped store holding the target blob or not, init() not yet run. *)
(***************************************************************************)
\* (a binding with neither flag takes part in no operation and is left out)
Bindings == {b \in [id : {Undefined}, priority : Priorities,
                    read : BOOLEAN, write : BOOLEAN] : b.read \/ b.write}

Init ==
  /\ stores \in [1..NumStores -> Bindings]
  /\ blobs \in [1..NumStores -> SUBSET {Target}]
  /\ pending = [i \in 1..NumStores |-> <<>>]
  /\ phase = "idle"
  /\ op = NoOp
  /\ issued = <<>>
  /\ ret = NoRet
  /\ hist = <<>>
  /\ net = NoNet

(***************************************************************************)
(* BsMulti.init                                                            *)
(***************************************************************************)
\* an init() that assigns an id only to a binding that has none
initKeepsSupplied ==
  /\ ~Busy
  /\ stores' = [idx \in 1..NumStores |->
                  IF stores[idx].id = Undefined
                    THEN [stores[idx] EXCEPT !.id = BsId(idx)] ELSE stores[idx]]
  /\ UNCHANGED <<blobs, pending, phase, op, issued, ret, hist, net>>

init ==
  /\ ~Busy
  /\ stores' = [idx \in 1..NumStores |-> [stores[idx] EXCEPT !.id = BsId(idx)]]
  /\ UNCHANGED <<blobs, pending, phase, op, issued, ret, hist, net>>

(***************************************************************************)
(* BsMulti.setBlob: write to all writables in parallel, await Promise.all  *)
(***************************************************************************)
\* setBlob without the check of the writables: Promise.all([]) resolves and
\* results[0] is undefined
setBlobNoCheck(c) ==
  /\ CanCall
  /\ op' = [NoOp EXCEPT !.name = "setBlob", !.content = c]
  /\ IF Len(writables) = 0
       THEN /\ phase' = "done"
            /\ ret' = Ok(Undefined)
            /\ issued' = <<>>
            /\ UNCHANGED pending
       ELSE /\ phase' = "awaitAll"
            /\ ret' = NoRet
            /\ issued' = [j \in 1..Len(writables) |->
                            Call(writables[j], "setBlob", 0, c, NoRange)]
            /\ pending' = Enqueue(pending, issued')
  /\ UNCHANGED <<stores, blobs, hist, net>>

setBlob(c) ==
  /\ CanCall
  /\ op' = [NoOp EXCEPT !.name = "setBlob", !.content = c]
  /\ IF Len(writables) = 0
       THEN /\ phase' = "done"
            /\ ret' = Err(Error(MsgNoWritable, 0, 0))
            /\ issued' = <<>>
            /\ UNCHANGED pending
       ELSE /\ phase' = "awaitAll"
            /\ ret' = NoRet
            /\ issued' = [j \in 1..Len(writables) |->
                            Call(writables[j], "setBlob", 0, c, NoRange)]
            /\ pending' = Enqueue(pending, issued')
  /\ UNCHANGED <<stores, blobs, hist, net>>

\* a fan-out that undoes the writes that succeeded when one write fails
SetBlobSettledRollback(i, fail) ==
  /\ phase = "awaitAll" /\ op.name = "setBlob"
  /\ Settles(i)
  /\ IF fail
       THEN /\ blobs' = [w \in 1..NumStores |->
                           IF w \in op.oks THEN blobs[w] \ {op.content} ELSE blobs[w]]
            /\ op' = [op EXCEPT !.fails = @ \cup {i}]
            /\ pending' = MarkStale(Dequeue(pending, i))
            /\ phase' = "done"
            /\ ret' = Err(StoreError(i, TRUE, 0))
       ELSE /\ blobs' = StoreSetBlob(blobs, i, Head(pending[i]).content)
            /\ op' = IF i = issued[1].tier
                       THEN [op EXCEPT !.first = <<Props(i, Head(pending[i]).content)>>,
                                       !.oks = @ \cup {i}]
                       ELSE [op EXCEPT !.oks = @ \cup {i}]
            /\ pending' = Dequeue(pending, i)
            /\ IF AwaitedTiers(pending') = {}
                 THEN /\ phase' = "done"
                      /\ ret' = Ok(op'.first[1])
                 ELSE UNCHANGED <<phase, ret>>
  /\ UNCHANGED <<stores, issued, hist, net>>

\* A setBlob issued by BsMulti.setBlob settles: Promise.all rejects on the
\* first rejection and resolves, with the results in the order of issue,
\* once every promise has resolved; setBlob returns results[0].
SetBlobSettled(i, fail) ==
  /\ phase = "awaitAll" /\ op.name = "setBlob"
  /\ Settles(i)
  /\ IF fail
       THEN /\ blobs' = blobs
            /\ op' = [op EXCEPT !.fails = @ \cup {i}]
            /\ pending' = MarkStale(Dequeue(pending, i))
            /\ phase' = "done"
            /\ ret' = Err(StoreError(i, TRUE, 0))
       ELSE /\ blobs' = StoreSetBlob(blobs, i, Head(pending[i]).content)
            /\ op' = IF i = issued[1].tier
                       THEN [op EXCEPT !.first = <<Props(i, Head(pending[i]).content)>>,
                                       !.oks = @ \cup {i}]
                       ELSE [op EXCEPT !.oks = @ \cup {i}]
            /\ pending' = Dequeue(pending, i)
            /\ IF AwaitedTiers(pending') = {}
                 THEN /\ phase' = "done"
                      /\ ret' = Ok(op'.first[1])
                 ELSE UNCHANGED <<phase, ret>>
  /\ UNCHANGED <<stores, issued, hist, net>>

(***************************************************************************)
(* BsMulti.deleteBlob: delete from all writables in parallel               *)
(***************************************************************************)
\* a deleteBlob issued to every binding, writable or not
deleteBlobEveryStore(id) ==
  /\ CanCall
  /\ op' = [NoOp EXCEPT !.name = "deleteBlob", !.blobId = id]
  /\ phase' = "awaitAll"
  /\ ret' = NoRet
  /\ issued' = [j \in 1..NumStores |-> Call(j, "deleteBlob", id, <<>>, NoRange)]
  /\ pending' = Enqueue(pending, issued')
  /\ UNCHANGED <<stores, blobs, hist, net>>

deleteBlob(id) ==
  /\ CanCall
  /\ op' = [NoOp EXCEPT !.name = "deleteBlob", !.blobId = id]
  /\ IF Len(writables) = 0
       THEN /\ phase' = "done"
            /\ ret' = Err(Error(MsgNoWritable, 0, 0))
            /\ issued' = <<>>
            /\ UNCHANGED pending
       ELSE /\ phase' = "awaitAll"
            /\ ret' = NoRet
            /\ issued' = [j \in 1..Len(writables) |->
                            Call(writables[j], "deleteBlob", id, <<>>, NoRange)]
            /\ pending' = Enqueue(pending, issued')
  /\ UNCHANGED <<stores, blobs, hist, net>>

\* a fan-out that tolerates NotFound from a binding that lacks the blob
DeleteBlobSettledTolerant(i, fail) ==
  /\ phase = "awaitAll" /\ op.name = "deleteBlob"
  /\ Settles(i)
  /\ IF fail
       THEN /\ blobs' = blobs
            /\ op' = [op EXCEPT !.fails = @ \cup {i}]
            /\ pending' = MarkStale(Dequeue(pending, i))
            /\ phase' = "done"
            /\ ret' = Err(StoreError(i, fail, op.blobId))
       ELSE /\ blobs' = StoreDeleteBlob(blobs, i, op.blobId)
            /\ op' = IF StoreHas(blobs, i, op.blobId)
                       THEN [op EXCEPT !.oks = @ \cup {i}]
                       ELSE [op EXCEPT !.fails = @ \cup {i}]
            /\ pending' = Dequeue(pending, i)
            /\ IF AwaitedTiers(pending') = {}
                 THEN /\ phase' = "done"
                      /\ ret' = Ok("void")
                 ELSE UNCHANGED <<phase, ret>>
  /\ UNCHANGED <<stores, issued, hist, net>>

\* A deleteBlob issued by BsMulti.deleteBlob settles.
DeleteBlobSettled(i, fail) ==
  /\ phase = "awaitAll" /\ op.name = "deleteBlob"
  /\ Settles(i)
  /\ IF fail \/ ~StoreHas(blobs, i, op.blobId)
       THEN /\ blobs' = blobs
            /\ op' = [op EXCEPT !.fails = @ \cup {i}]
            /\ pending' = MarkStale(Dequeue(pending, i))
            /\ phase' = "done"
            /\ ret' = Err(StoreError(i, fail, op.blobId))
       ELSE /\ blobs' = StoreDeleteBlob(blobs, i, op.blobId)
            /\ op' = [op EXCEPT !.oks = @ \cup {i}]
            /\ pending' = Dequeue(pending, i)
            /\ IF AwaitedTiers(pending') = {}
                 THEN /\ phase' = "done"
                      /\ ret' = Ok("void")
                 ELSE UNCHANGED <<phase, ret>>
  /\ UNCHANGED <<stores, issued, hist, net>>

\* A store call settles whose BsMulti method has already returned (its
\* Promise.all was rejected by another call): only the store changes.
StaleSettled(i, fail) ==
  /\ pending[i] # <<>> /\ Head(pending[i]).stale
  /\ pending' = Dequeue(pending, i)
  /\ blobs' = IF fail THEN blobs
              ELSE IF Head(pending[i]).method = "setBlob"
                THEN StoreSetBlob(blobs, i, Head(pending[i]).content)
                ELSE StoreDeleteBlob(blobs, i, Head(pending[i]).blobId)
  /\ UNCHANGED <<stores, phase, op, issued, ret, hist, net>>

(***************************************************************************)
(* Reads in priority order                                                 *)
(***************************************************************************)
ReadMethods == {"getBlob", "getBlobStream", "getBlobProperties", "generateSignedUrl"}

\* a fan-out that contacts every readable at once
ReadCallParallel(name, id, r) ==
  /\ CanCall
  /\ IF Len(readables) = 0
       THEN /\ op' = [NoOp EXCEPT !.name = name, !.blobId = id, !.range = r]
            /\ phase' = "done"
            /\ ret' = Err(Error(MsgNoReadable, 0, 0))
            /\ issued' = <<>>
            /\ UNCHANGED pending
       ELSE /\ op' = [NoOp EXCEPT !.name = name, !.blobId = id, !.range = r,
                                  !.rds = readables, !.k = 1]
            /\ phase' = "reading"
            /\ ret' = NoRet
            /\ issued' = [j \in 1..Len(readables) |-> Call(readables[j], name, id, <<>>, r)]
            /\ pending' = Enqueue(pending, issued')
  /\ UNCHANGED <<stores, blobs, hist, net>>

\* Entry of a method that tries the readables in priority order: the
\* NoReadable check, then the first iteration of the for loop up to its await.
ReadEntry(name, id, r) ==
  /\ IF Len(readables) = 0
       THEN /\ op' = [NoOp EXCEPT !.name = name, !.blobId = id, !.range = r]
            /\ phase' = "done"
            /\ ret' = Err(Error(MsgNoReadable, 0, 0))
            /\ issued' = <<>>
            /\ UNCHANGED pending
       ELSE /\ op' = [NoOp EXCEPT !.name = name, !.blobId = id, !.range = r,
                                  !.rds = readables, !.k = 1]
            /\ phase' = "reading"
            /\ ret' = NoRet
            /\ issued' = <<Call(readables[1], name, id, <<>>, r)>>
            /\ pending' = Enqueue(pending, issued')
  /\ UNCHANGED <<stores, blobs, hist, net>>

\* the method is called by a caller that has run init()
ReadCall(name, id, r) == CanCall /\ ReadEntry(name, id, r)

getBlob(id, r) == ReadCall("getBlob", id, r)

getBlobStream(id) == ReadCall("getBlobStream", id, NoRange)

getBlobProperties(id) == ReadCall("getBlobProperties", id, NoRange)

generateSignedUrl(id) == ReadCall("generateSignedUrl", id, NoRange)

\* reconciliation that throws the last error collected
ReconcileLast(errors, blobId) ==
  IF Len(SelectSeq(errors, IsNotFound)) = Len(errors)
    THEN Error(MsgNotFound, 0, blobId)
    ELSE errors[Len(errors)]

\* reconciliation that rethrows the first error whatever it is
ReconcileFirst(errors, blobId) == errors[1]

\* The error thrown after the loop when no readable succeeded
Reconcile(errors, blobId) ==
  IF Len(SelectSeq(errors, IsNotFound)) = Len(errors)
    THEN Error(MsgNotFound, 0, blobId)
    ELSE errors[1]

\* after a call that did not end the loop: the next iteration up to its
\* await or, after the last readable, the end of the loop
NextReadable(i) ==
  IF op.k < Len(op.rds)
    THEN /\ issued' = Append(issued, Call(op.rds[op.k + 1], op.name,
                                          op.blobId, <<>>, op.range))
         /\ pending' = Enqueue(Dequeue(pending, i), <<issued'[Len(issued')]>>)
    ELSE /\ pending' = Dequeue(pending, i)
         /\ UNCHANGED issued

\* a catch block that rethrows an error other than NotFound at once
ReadFailedShortCircuit(i, err) ==
  /\ blobs' = blobs
  /\ IF IsNotFound(err) /\ op.k < Len(op.rds)
       THEN /\ op' = [op EXCEPT !.errors = Append(@, err), !.k = op.k + 1]
            /\ NextReadable(i)
            /\ UNCHANGED <<phase, ret>>
       ELSE /\ op' = [op EXCEPT !.errors = Append(@, err)]
            /\ pending' = Dequeue(pending, i)
            /\ UNCHANGED issued
            /\ phase' = "done"
            /\ ret' = Err(IF IsNotFound(err) THEN Reconcile(op'.errors, op.blobId) ELSE err)

\* catch (e) { errors.push(e); continue; } and, after the last readable,
\* the error reconciliation
ReadFailed(i, err) ==
  /\ blobs' = blobs
  /\ op' = [op EXCEPT !.errors = Append(@, err),
                      !.k = IF op.k < Len(op.rds) THEN op.k + 1 ELSE op.k]
  /\ NextReadable(i)
  /\ IF op.k < Len(op.rds)
       THEN UNCHANGED <<phase, ret>>
       ELSE /\ phase' = "done"
            /\ ret' = Err(Reconcile(op'.errors, op.blobId))

\* hot-swap without the filter on the source
HotSwapNoFilter(readFrom) == writables

\* hot-swap that forgets to start from the writables
HotSwapAllStores(readFrom) == SelectSeq(Indexes, LAMBDA w : stores[w].id # readFrom)

\* hot-swap into the tiers preferred to the source only
HotSwapPreferredOnly(readFrom) ==
  SelectSeq(writables, LAMBDA w : \E t \in 1..NumStores :
                          /\ stores[t].id = readFrom
                          /\ stores[w].priority < stores[t].priority)

\* hot-swap that skips the bindings without id
HotSwapTargetsWithId(readFrom) ==
  SelectSeq(writables, LAMBDA w : stores[w].id # readFrom /\ stores[w].id # Undefined)

\* writables.filter((writable) => writable.id !== readFrom)
HotSwapTargets(readFrom) ==
  SelectSeq(writables, LAMBDA w : stores[w].id # readFrom)

\* The getBlob of a readable settles inside BsMulti.getBlob: on success the
\* loop breaks and the hot-swap writes are issued.
GetBlobSettled(i, fail) ==
  /\ phase = "reading" /\ op.name = "getBlob"
  /\ Settles(i)
  /\ UNCHANGED <<stores, hist, net>>
  /\ IF fail \/ ~StoreHas(blobs, i, op.blobId)
       THEN ReadFailed(i, StoreError(i, fail, op.blobId))
       ELSE LET result == StoreGetBlob(blobs, i, op.blobId, op.range)
                readFrom == IF stores[i].id = Undefined THEN "" ELSE stores[i].id
                targets == IF Len(writables) > 0 THEN HotSwapTargets(readFrom) ELSE <<>>
                hotSwapWrites == [j \in 1..Len(targets) |->
                                    Call(targets[j], "setBlob", 0, result.content, NoRange)]
            IN /\ blobs' = blobs
               /\ op' = [op EXCEPT !.result = <<result>>, !.readFrom = readFrom,
                                   !.servedBy = i]
               /\ issued' = issued \o hotSwapWrites
               /\ pending' = Enqueue(Dequeue(pending, i), hotSwapWrites)
               /\ IF Len(targets) = 0
                    THEN /\ phase' = "done"
                         /\ ret' = Ok(result)
                    ELSE /\ phase' = "hotswap"
                         /\ ret' = ret

\* hot-swap writes without the .catch: the first failure rejects getBlob
HotSwapSettledPropagates(i, fail) ==
  /\ phase = "hotswap"
  /\ Settles(i)
  /\ blobs' = IF fail THEN blobs ELSE StoreSetBlob(blobs, i, Head(pending[i]).content)
  /\ op' = IF fail THEN [op EXCEPT !.fails = @ \cup {i}]
                   ELSE [op EXCEPT !.oks = @ \cup {i}]
  /\ IF fail
       THEN /\ pending' = MarkStale(Dequeue(pending, i))
            /\ phase' = "done"
            /\ ret' = Err(StoreError(i, TRUE, 0))
       ELSE /\ pending' = Dequeue(pending, i)
            /\ IF AwaitedTiers(pending') = {}
                 THEN /\ phase' = "done"
                      /\ ret' = Ok(op.result[1])
                 ELSE UNCHANGED <<phase, ret>>
  /\ UNCHANGED <<stores, issued, hist, net>>

\* hot-swap writes awaited with Promise.race: getBlob returns with the
\* first of them that settles
HotSwapSettledRace(i, fail) ==
  /\ phase = "hotswap"
  /\ Settles(i)
  /\ pending' = MarkStale(Dequeue(pending, i))
  /\ blobs' = IF fail THEN blobs ELSE StoreSetBlob(blobs, i, Head(pending[i]).content)
  /\ op' = IF fail THEN [op EXCEPT !.fails = @ \cup {i}]
                   ELSE [op EXCEPT !.oks = @ \cup {i}]
  /\ phase' = "done"
  /\ ret' = Ok(op.result[1])
  /\ UNCHANGED <<stores, issued, hist, net>>

\* A hot-swap setBlob settles: its error is ignored (.catch(() => {})), and
\* getBlob returns once all of them have settled.
HotSwapSettled(i, fail) ==
  /\ phase = "hotswap"
  /\ Settles(i)
  /\ pending' = Dequeue(pending, i)
  /\ blobs' = IF fail THEN blobs ELSE StoreSetBlob(blobs, i, Head(pending[i]).content)
  /\ op' = IF fail THEN [op EXCEPT !.fails = @ \cup {i}]
                   ELSE [op EXCEPT !.oks = @ \cup {i}]
  /\ IF AwaitedTiers(pending') = {}
       THEN /\ phase' = "done"
            /\ ret' = Ok(op.result[1])
       ELSE UNCHANGED <<phase, ret>>
  /\ UNCHANGED <<stores, issued, hist, net>>

\* What store i returns for a successful read other than getBlob
ReadValue(name, b, i, id) ==
  IF name = "getBlobStream" THEN [stream |-> BlobOf(b, i, id)]
  ELSE IF name = "getBlobProperties" THEN Props(i, BlobOf(b, i, id))
  ELSE [url |-> id, tier |-> i]

\* a read that caches what it found in the other writable bindings
ReadSettledCaching(i, fail) ==
  /\ phase = "reading" /\ op.name \in ReadMethods \ {"getBlob"}
  /\ Settles(i)
  /\ UNCHANGED <<stores, hist, net>>
  /\ IF fail \/ ~StoreHas(blobs, i, op.blobId)
       THEN ReadFailed(i, StoreError(i, fail, op.blobId))
       ELSE /\ blobs' = [w \in 1..NumStores |->
                           IF stores[w].write /\ w # i
                             THEN blobs[w] \cup {BlobOf(blobs, i, op.blobId)}
                             ELSE blobs[w]]
            /\ op' = [op EXCEPT !.servedBy = i]
            /\ pending' = Dequeue(pending, i)
            /\ phase' = "done"
            /\ ret' = Ok(ReadValue(op.name, blobs, i, op.blobId))
            /\ UNCHANGED issued

\* The call on a readable settles inside getBlobStream, getBlobProperties
\* or generateSignedUrl: return await readable.bs.<method>(...)
ReadSettled(i, fail) ==
  /\ phase = "reading" /\ op.name \in ReadMethods \ {"getBlob"}
  /\ Settles(i)
  /\ UNCHANGED <<stores, hist, net>>
  /\ IF fail \/ ~StoreHas(blobs, i, op.blobId)
       THEN ReadFailed(i, StoreError(i, fail, op.blobId))
       ELSE /\ blobs' = blobs
            /\ op' = [op EXCEPT !.servedBy = i]
            /\ pending' = Dequeue(pending, i)
            /\ phase' = "done"
            /\ ret' = Ok(ReadValue(op.name, blobs, i, op.blobId))
            /\ UNCHANGED issued

(***************************************************************************)
(* BsMulti.blobExists                                                      *)
(***************************************************************************)
blobExists(id) == ReadCall("blobExists", id, NoRange)

\* a loop without the catch: the error of a readable rejects blobExists
BlobExistsSettledThrows(i, fail) ==
  /\ phase = "reading" /\ op.name = "blobExists"
  /\ Settles(i)
  /\ blobs' = blobs
  /\ UNCHANGED <<stores, hist, net>>
  /\ IF fail
       THEN /\ op' = [op EXCEPT !.fails = @ \cup {i}]
            /\ pending' = Dequeue(pending, i)
            /\ phase' = "done"
            /\ ret' = Err(StoreError(i, TRUE, 0))
            /\ UNCHANGED issued
       ELSE IF StoreHas(blobs, i, op.blobId)
         THEN /\ op' = [op EXCEPT !.servedBy = i]
              /\ pending' = Dequeue(pending, i)
              /\ phase' = "done"
              /\ ret' = Ok(TRUE)
              /\ UNCHANGED issued
         ELSE /\ op' = [op EXCEPT !.k = IF op.k < Len(op.rds) THEN op.k + 1 ELSE op.k]
              /\ NextReadable(i)
              /\ IF op.k < Len(op.rds)
                   THEN UNCHANGED <<phase, ret>>
                   ELSE /\ phase' = "done"
                        /\ ret' = Ok(FALSE)

\* The blobExists of a readable settles: true returns, false or an error
\* continues with the next readable.
BlobExistsSettled(i, fail) ==
  /\ phase = "reading" /\ op.name = "blobExists"
  /\ Settles(i)
  /\ blobs' = blobs
  /\ UNCHANGED <<stores, hist, net>>
  /\ IF ~fail /\ StoreHas(blobs, i, op.blobId)
       THEN /\ op' = [op EXCEPT !.servedBy = i]
            /\ pending' = Dequeue(pending, i)
            /\ phase' = "done"
            /\ ret' = Ok(TRUE)
            /\ UNCHANGED issued
       ELSE /\ op' = [op EXCEPT !.k = IF op.k < Len(op.rds) THEN op.k + 1 ELSE op.k,
                                  !.fails = IF fail THEN @ \cup {i} ELSE @]
            /\ NextReadable(i)
            /\ IF op.k < Len(op.rds)
                 THEN UNCHANGED <<phase, ret>>
                 ELSE /\ phase' = "done"
                      /\ ret' = Ok(FALSE)

(***************************************************************************)
(* Specification                                                           *)
(***************************************************************************)
Next ==
  \/ init
  \/ \E c \in Contents : setBlob(c)
  \/ \E id \in BlobIds : deleteBlob(id)
  \/ \E id \in BlobIds, r \in Ranges : getBlob(id, r)
  \/ \E id \in BlobIds : getBlobStream(id)
  \/ \E id \in BlobIds : getBlobProperties(id)
  \/ \E id \in BlobIds : generateSignedUrl(id)
  \/ \E id \in BlobIds : blobExists(id)
  \/ \E i \in 1..NumStores, fail \in BOOLEAN : SetBlobSettled(i, fail)
  \/ \E i \in 1..NumStores, fail \in BOOLEAN : DeleteBlobSettled(i, fail)
  \/ \E i \in 1..NumStores, fail \in BOOLEAN : GetBlobSettled(i, fail)
  \/ \E i \in 1..NumStores, fail \in BOOLEAN : HotSwapSettled(i, fail)
  \/ \E i \in 1..NumStores, fail \in BOOLEAN : ReadSettled(i, fail)
  \/ \E i \in 1..NumStores, fail \in BOOLEAN : BlobExistsSettled(i, fail)
  \/ \E i \in 1..NumStores, fail \in BOOLEAN : StaleSettled(i, fail)

Spec == Init /\ [][Next]_vars

(***************************************************************************)
(* BsMulti.listBlobs: collect every page of every readable, deduplicate by  *)
(* blobId, sort, then paginate the merged list.  A blobId is written as     *)
(* two digits, so that the order of the numbers is the order of the         *)
(* strings and a prefix is a leading digit.                                 *)
(***************************************************************************)
\* maxResults of the request BsMulti sends to a store
ChunkSize == 1000

\* x, y and z of the listing: blobIds 01, 02 and 13
ListContents == {<<1>>, <<2>>, <<1, 2>>}

\* what a wrapped store holds when BsMulti is constructed: nothing, {x, y}
\* or {y, z}
Holdings == {{}, {<<1>>, <<2>>}, {<<2>>, <<1, 2>>}}

Digits(id) == <<id \div 4, id % 4>>

\* blobId.startsWith(prefix); <<>> is no prefix
StartsWith(id, prefix) == SubSeq(Digits(id), 1, Len(prefix)) = prefix

\* ListBlobsOptions: <<>> is undefined.  The token 'invalid' is the blobId
\* of no content.
InvalidToken == <<Hash(<<3>>)>>
Prefixes == {<<>>, <<0>>}
MaxResults == {<<>>, <<0>>, <<1>>, <<2>>}
Tokens == {<<>>, InvalidToken, <<Hash(<<1>>)>>, <<Hash(<<2>>)>>}
ListBlobsOptions == [prefix : Prefixes, maxResults : MaxResults, continuationToken : Tokens]

\* blobs.sort((a, b) => a.blobId.localeCompare(b.blobId))
RECURSIVE SortByBlobId(_)
SortByBlobId(q) ==
  IF q = <<>> THEN <<>>
  ELSE LET sorted == SortByBlobId(Front(q))
           x == q[Len(q)]
           pos == Cardinality({j \in 1..Len(sorted) : sorted[j].blobId <= x.blobId})
       IN SubSeq(sorted, 1, pos) \o <<x>> \o SubSeq(sorted, pos + 1, Len(sorted))

RECURSIVE SetToSeq(_)
SetToSeq(S) == IF S = {} THEN <<>>
               ELSE LET x == CHOOSE x \in S : TRUE IN <<x>> \o SetToSeq(S \ {x})

\* blobs.findIndex((blob) => blob.blobId === token), counted from 0
FindIndex(q, id) ==
  IF \E j \in 1..Len(q) : q[j].blobId = id
    THEN (CHOOSE j \in 1..Len(q) : q[j].blobId = id /\ \A h \in 1..(j - 1) : q[h].blobId # id) - 1
    ELSE -1

\* Bs.listBlobs of store i: the blobs with the prefix in the order of their
\* blobIds, from after the token, at most max of them; the token of a page
\* that does not end the listing is the blobId of its last entry.
StoreListBlobs(b, i, prefix, token, max) ==
  LET all == SortByBlobId(SetToSeq({Props(i, c) : c \in {d \in b[i] : StartsWith(Hash(d), prefix)}}))
      start == IF token = <<>> THEN 0 ELSE FindIndex(all, token[1]) + 1
      end == Min(start + max, Len(all))
      page == SubSeq(all, start + 1, end)
  IN [blobs |-> page,
      continuationToken |-> IF end < Len(all) THEN <<page[Len(page)].blobId>> ELSE <<>>]

\* a merge in which the entry of the later binding replaces the earlier one
RECURSIVE MergeLastWins(_, _)
MergeLastWins(blobMap, page) ==
  IF page = <<>> THEN blobMap
  ELSE MergeLastWins(
         Append(SelectSeq(blobMap, LAMBDA e : e.blobId # page[1].blobId), page[1]),
         Tail(page))

\* a merge that keeps every entry of every page
MergeNoDedup(blobMap, page) == blobMap \o page

\* if (!blobMap.has(blob.blobId)) blobMap.set(blob.blobId, blob), for the
\* blobs of a page in turn
RECURSIVE Merge(_, _)
Merge(blobMap, page) ==
  IF page = <<>> THEN blobMap
  ELSE Merge(IF \E j \in 1..Len(blobMap) : blobMap[j].blobId = page[1].blobId
               THEN blobMap ELSE Append(blobMap, page[1]),
             Tail(page))

\* pagination that fails on a token it does not find
PaginateStrict(merged, maxResults, token) ==
  IF token # <<>> /\ FindIndex(SortByBlobId(merged), token[1]) = -1
    THEN Err(Error("Invalid continuation token", 0, 0))
    ELSE Ok([blobs |-> SortByBlobId(merged), continuationToken |-> <<>>])

\* pagination that resumes at the token instead of after it
PaginateFromToken(merged, maxResults, token) ==
  LET all == SortByBlobId(merged)
      max == IF maxResults = <<>> THEN Len(all) ELSE maxResults[1]
      tokenIndex == IF token = <<>> THEN -1 ELSE FindIndex(all, token[1])
      startIndex == IF tokenIndex = -1 THEN 0 ELSE tokenIndex
      endIndex == Min(startIndex + max, Len(all))
      pageBlobs == SubSeq(all, startIndex + 1, endIndex)
  IN Ok([blobs |-> pageBlobs,
         continuationToken |->
           IF endIndex < Len(all) /\ pageBlobs # <<>>
             THEN <<pageBlobs[Len(pageBlobs)].blobId>> ELSE <<>>])

\* The end of listBlobs: sort the merged blobs and cut the caller's page.
\* pageBlobs[pageBlobs.length - 1]?.blobId is undefined for an empty page.
Paginate(merged, maxResults, token) ==
  LET all == SortByBlobId(merged)
      max == IF maxResults = <<>> THEN Len(all) ELSE maxResults[1]
      tokenIndex == IF token = <<>> THEN -1 ELSE FindIndex(all, token[1])
      startIndex == IF tokenIndex = -1 THEN 0 ELSE tokenIndex + 1
      endIndex == Min(startIndex + max, Len(all))
      pageBlobs == SubSeq(all, startIndex + 1, endIndex)
  IN Ok([blobs |-> pageBlobs,
         continuationToken |->
           IF endIndex < Len(all) /\ pageBlobs # <<>>
             THEN <<pageBlobs[Len(pageBlobs)].blobId>> ELSE <<>>])

\* Locals of listBlobs.  blobMap holds the entries in the order of their
\* insertion, storeToken is the continuationToken of the collection loop,
\* fails records the readables whose listing was caught failing.  chain
\* follows a caller that pages through the listing: acc is the blobIds of
\* the pages returned since the call without token, as long as each call
\* passed the token returned by the call before it, with the same prefix and
\* maxResults, and no readable failed.
NoChain == [active |-> FALSE, acc |-> <<>>]

ListNoOp == [name |-> "none",
             opts |-> [prefix |-> <<>>, maxResults |-> <<>>, continuationToken |-> <<>>],
             rds |-> <<>>, k |-> 0, blobMap |-> <<>>, storeToken |-> <<>>,
             fails |-> {}, chain |-> NoChain]

\* bindings of a listing (the write flag plays no part in listBlobs, nor
\* does the store of a binding that is not readable, which is left empty)
ListBindings == {b \in Bindings : b.write}

ListInit ==
  /\ stores \in [1..NumStores -> ListBindings]
  /\ blobs \in [1..NumStores -> Holdings]
  /\ \A i \in 1..NumStores : ~stores[i].read => blobs[i] = {}
  /\ pending = [i \in 1..NumStores |-> <<>>]
  /\ phase = "idle"
  /\ op = ListNoOp
  /\ issued = <<>>
  /\ ret = NoRet
  /\ hist = <<>>
  /\ net = NoNet

BlobIdsOf(q) == [j \in 1..Len(q) |-> q[j].blobId]

\* Entry of listBlobs: the NoReadable check, then the first request for a
\* page of the first readable.  listBlobs leaves nothing behind in BsMulti
\* or in the stores, so a call behaves after another call as it does as the
\* first call: the caller makes its first call with any options and then
\* pages on with the token it was given.
listBlobs(options) ==
  /\ CanCall
  /\ LET continues == /\ phase = "done" /\ op.name = "listBlobs" /\ ret.status = "ok"
                      /\ op.chain.active
                      /\ options.continuationToken # <<>>
                      /\ options.continuationToken = ret.value[1].continuationToken
                      /\ options.prefix = op.opts.prefix
                      /\ options.maxResults = op.opts.maxResults
         chain == IF options.continuationToken = <<>> THEN [active |-> TRUE, acc |-> <<>>]
                  ELSE IF continues THEN op.chain ELSE NoChain
     IN /\ phase = "idle" \/ continues
        /\ IF Len(readables) = 0
          THEN /\ op' = [ListNoOp EXCEPT !.name = "listBlobs", !.opts = options]
               /\ phase' = "done"
               /\ ret' = Err(Error(MsgNoReadable, 0, 0))
               /\ issued' = <<>>
               /\ UNCHANGED pending
          ELSE /\ op' = [ListNoOp EXCEPT !.name = "listBlobs", !.opts = options,
                                         !.rds = readables, !.k = 1, !.chain = chain]
               /\ phase' = "listing"
               /\ ret' = NoRet
               /\ issued' = <<Call(readables[1], "listBlobs", 0, <<>>, NoRange)>>
               /\ pending' = Enqueue(pending, issued')
  /\ UNCHANGED <<stores, blobs, hist, net>>

\* The collection of readable i has ended, with its last page or with an
\* error: the next readable is asked for its first page or, after the last
\* readable, the merged blobs are sorted and the caller's page is returned.
ListAdvance(i, blobMap, fails) ==
  IF op.k < Len(op.rds)
    THEN /\ op' = [op EXCEPT !.blobMap = blobMap, !.fails = fails,
                             !.storeToken = <<>>, !.k = op.k + 1]
         /\ issued' = Append(issued, Call(op.rds[op.k + 1], "listBlobs", 0, <<>>, NoRange))
         /\ pending' = Enqueue(Dequeue(pending, i), <<issued'[Len(issued')]>>)
         /\ UNCHANGED <<phase, ret>>
    ELSE /\ ret' = Paginate(blobMap, op.opts.maxResults, op.opts.continuationToken)
         /\ op' = [op EXCEPT !.blobMap = blobMap, !.fails = fails, !.storeToken = <<>>,
                             !.chain = IF op.chain.active /\ fails = {}
                                         THEN [active |-> TRUE,
                                               acc |-> op.chain.acc \o BlobIdsOf(ret'.value[1].blobs)]
                                         ELSE NoChain]
         /\ phase' = "done"
         /\ pending' = Dequeue(pending, i)
         /\ UNCHANGED issued

\* a collection loop that takes the first page of a readable and goes on
ListBlobsSettledOnePage(i, fail, limit) ==
  /\ phase = "listing"
  /\ Settles(i)
  /\ UNCHANGED <<stores, blobs, hist, net>>
  /\ IF fail
       THEN ListAdvance(i, op.blobMap, op.fails \cup {i})
       ELSE LET result == StoreListBlobs(blobs, i, op.opts.prefix, op.storeToken,
                                         Min(ChunkSize, limit))
            IN ListAdvance(i, Merge(op.blobMap, result.blobs), op.fails)

\* A listBlobs of readable i settles inside the collection loop.  The store
\* returns a page of at most maxResults blobs, or fewer if its own page
\* limit is smaller.  A page is merged as it arrives; a page with a token
\* asks the same readable for the next page; an error ends the collection of
\* this readable and leaves blobMap as it is.
ListBlobsSettled(i, fail, limit) ==
  /\ phase = "listing"
  /\ Settles(i)
  /\ UNCHANGED <<stores, blobs, hist, net>>
  /\ IF fail
       THEN ListAdvance(i, op.blobMap, op.fails \cup {i})
       ELSE LET result == StoreListBlobs(blobs, i, op.opts.prefix, op.storeToken,
                                         Min(ChunkSize, limit))
                blobMap == Merge(op.blobMap, result.blobs)
            IN IF result.continuationToken # <<>>
                 THEN /\ op' = [op EXCEPT !.blobMap = blobMap,
                                          !.storeToken = result.continuationToken]
                      /\ issued' = Append(issued, Call(i, "listBlobs", 0, <<>>, NoRange))
                      /\ pending' = Enqueue(Dequeue(pending, i), <<issued'[Len(issued')]>>)
                      /\ UNCHANGED <<phase, ret>>
                 ELSE ListAdvance(i, blobMap, op.fails)

\* the page limits of a wrapped store: one blob, or no limit of its own
StoreLimits == {1, ChunkSize}

ListNext ==
  \/ init
  \/ \E options \in ListBlobsOptions : listBlobs(options)
  \/ \E i \in 1..NumStores, fail \in BOOLEAN, limit \in StoreLimits :
       ListBlobsSettled(i, fail, limit)

SpecList == ListInit /\ [][ListNext]_vars

(***************************************************************************)
(* Properties                                                              *)
(***************************************************************************)
Readable == {i \in 1..NumStores : stores[i].read}
Writable == {i \in 1..NumStores : stores[i].write}

Returned(name) == phase = "done" /\ op.name = name
ReturnedOk(name) == Returned(name) /\ ret.status = "ok"

\* the stores whose read failed in the method call
FailedReads == {op.errors[k].tier : k \in 1..Len(op.errors)}

\* number of setBlob(c) calls the method call issued to store i
Writes(i, c) ==
  Cardinality({n \in 1..Len(issued) : /\ issued[n].tier = i
                                      /\ issued[n].method = "setBlob"
                                      /\ issued[n].content = c})

\* the first error in priority order that is not NotFound
FirstNonNotFound(errors) ==
  errors[CHOOSE k \in 1..Len(errors) :
           /\ ~IsNotFound(errors[k])
           /\ \A j \in 1..(k - 1) : IsNotFound(errors[j])]

\* C1: when getBlob succeeds, the content and properties it returns are those
\* of the serving binding, which is readable, and every other readable
\* binding either failed in this call or has no lower priority number.
C1_PriorityOrdering ==
  ReturnedOk("getBlob") =>
    /\ op.servedBy \in Readable
    /\ ret.value[1] = StoreGetBlob(blobs, op.servedBy, op.blobId, op.range)
    /\ \A j \in Readable \ {op.servedBy} :
         j \in FailedReads \/ stores[op.servedBy].priority <= stores[j].priority

\* a read served by a binding while a less preferred readable holds the blob too
C1_Witness ==
  /\ ReturnedOk("getBlob")
  /\ \E j \in Readable : /\ stores[j].priority > stores[op.servedBy].priority
                         /\ StoreHas(blobs, j, op.blobId)
                         /\ j < op.servedBy

\* C2 (as claimed): after getBlob(id) succeeded served by T, every writable
\* binding other than T holds id.
C2_HotSwapAlways ==
  ReturnedOk("getBlob") =>
    \A w \in Writable \ {op.servedBy} : StoreHas(blobs, w, op.blobId)

\* C2 (amended): after getBlob(id) succeeded served by T, every writable
\* binding other than T whose hot-swap setBlob did not fail holds the content
\* getBlob returned, which is the blob id when no range was requested.
C2_HotSwapUnlessFailed ==
  ReturnedOk("getBlob") =>
    \A w \in Writable \ {op.servedBy} :
      \/ w \in op.fails
      \/ /\ ret.value[1].content \in blobs[w]
         /\ op.range = NoRange => StoreHas(blobs, w, op.blobId)

\* a hot-swap that succeeded on a binding other than the serving one
C2_Witness ==
  /\ ReturnedOk("getBlob")
  /\ op.range = NoRange
  /\ \E w \in Writable \ {op.servedBy} : w \in op.oks /\ StoreHas(blobs, w, op.blobId)

\* C3: a failure of a preferred readable, whatever the error, does not fail
\* getBlob: the next readable is tried, getBlob returns the content of the
\* first one that succeeds, and fails only when every readable has failed.
C3_GracefulFallback ==
  (Returned("getBlob") /\ op.errors # <<>>) =>
    /\ \A k \in 1..Len(op.errors) : op.errors[k].tier = op.rds[k]
    /\ IF ret.status = "ok"
         THEN /\ op.servedBy = op.rds[Len(op.errors) + 1]
              /\ ret.value[1] = StoreGetBlob(blobs, op.servedBy, op.blobId, op.range)
         ELSE FailedReads = Readable

\* the preferred readable failed with an error other than NotFound and a
\* less preferred one served the blob
C3_Witness ==
  /\ ReturnedOk("getBlob")
  /\ op.errors # <<>>
  /\ ~IsNotFound(op.errors[1])
  /\ stores[op.rds[1]].priority < stores[op.servedBy].priority

\* C4 (as claimed): a failure other than NotFound of the preferred readable
\* fails the read with that error, whatever the other readables hold.
C4_ErrorPrecedence ==
  (phase = "done" /\ op.name \in ReadMethods
     /\ op.errors # <<>> /\ ~IsNotFound(op.errors[1])) =>
    ret = Err(op.errors[1])

\* C4 (amended): after a failure other than NotFound of the preferred
\* readable the read fails only if every other readable fails too, and then
\* with the preferred readable's error; otherwise it succeeds, served by the
\* first readable that succeeds.
C4_ErrorAfterFallback ==
  (phase = "done" /\ op.name \in ReadMethods
     /\ op.errors # <<>> /\ ~IsNotFound(op.errors[1])) =>
    IF ret.status = "err"
      THEN FailedReads = Readable /\ ret = Err(op.errors[1])
      ELSE /\ op.servedBy = op.rds[Len(op.errors) + 1]
           /\ StoreHas(blobs, op.servedBy, op.blobId)

\* every readable failed, the preferred one with an error other than NotFound
C4_Witness ==
  /\ phase = "done" /\ op.name \in ReadMethods \ {"getBlob"}
  /\ Len(op.errors) >= 2
  /\ ~IsNotFound(op.errors[1])
  /\ IsNotFound(op.errors[2])
  /\ ret = Err(op.errors[1])

\* C5: when every readable fails and the failures are mixed, the error
\* surfaced is the first one in priority order that is not NotFound.
C5_FirstNonNotFound ==
  (phase = "done" /\ op.name \in ReadMethods /\ ret.status = "err"
     /\ \E k \in 1..Len(op.errors) : ~IsNotFound(op.errors[k])) =>
    ret = Err(FirstNonNotFound(op.errors))

\* C6: when every readable fails with NotFound, the read fails with a single
\* NotFound error of BsMulti for the requested blobId.
C6_NotFoundCollapse ==
  (phase = "done" /\ op.name \in ReadMethods /\ ret.status = "err"
     /\ op.errors # <<>>
     /\ \A k \in 1..Len(op.errors) : IsNotFound(op.errors[k])) =>
    /\ FailedReads = Readable
    /\ ret = Err(Error(MsgNotFound, 0, op.blobId))

\* two readables, neither holding the blob
C6_Witness ==
  /\ phase = "done" /\ op.name \in ReadMethods
  /\ Len(op.errors) >= 2
  /\ \A k \in 1..Len(op.errors) : IsNotFound(op.errors[k])
  /\ ret = Err(Error(MsgNotFound, 0, op.blobId))

\* C7: setBlob issues one setBlob(content) to every writable binding and to
\* no other; it succeeds only if each of them succeeded, every writable
\* binding then holds the blob and the properties returned are the blob's;
\* if one fails, setBlob fails with the error of a binding that failed.
C7_SetBlobAll ==
  (Returned("setBlob") /\ Writable # {}) =>
    /\ \A i \in 1..NumStores :
         Writes(i, op.content) = IF i \in Writable THEN 1 ELSE 0
    /\ Len(issued) = Cardinality(Writable)
    /\ op.fails # {} => ret.status = "err"
    /\ ret.status = "ok" =>
         /\ op.oks = Writable
         /\ \A w \in Writable : op.content \in blobs[w]
         /\ ret.value[1].blobId = Hash(op.content)
         /\ ret.value[1].size = Len(op.content)
    /\ ret.status = "err" =>
         /\ ret.error[1].tier \in op.fails
         /\ op.fails \subseteq Writable

\* a successful setBlob over two writable bindings
C7_Witness ==
  /\ ReturnedOk("setBlob")
  /\ Cardinality(Writable) >= 2
  /\ \A w \in Writable : op.content \in blobs[w]

\* C8 (as claimed): setBlob and deleteBlob do not return, with success or
\* with an error, before every call they issued has settled.
C8_WaitsForAll ==
  (phase = "done" /\ op.name \in {"setBlob", "deleteBlob"}) =>
    \A n \in 1..Len(issued) : issued[n].tier \in op.oks \cup op.fails

\* C8 (amended): setBlob and deleteBlob do not return with success before
\* every call they issued has resolved; they return with an error as soon as
\* one call has failed, whatever the state of the others.
C8_SuccessWaitsForAll ==
  (phase = "done" /\ op.name \in {"setBlob", "deleteBlob"} /\ Writable # {}) =>
    /\ ret.status = "ok" =>
         /\ op.oks = Writable
         /\ \A n \in 1..Len(issued) : issued[n].tier \in op.oks
         /\ op.fails = {}
    /\ ret.status = "err" => ret.error[1].tier \in op.fails

\* a successful write fan-out over two writable bindings
C8_Witness ==
  /\ phase = "done" /\ op.name = "deleteBlob" /\ ret.status = "ok"
  /\ Cardinality(Writable) >= 2
  /\ op.oks = Writable

C10_HotSwapOnce ==
  (op.name = "getBlob" /\ op.result # <<>> /\ op.readFrom # "") =>
    \A i \in 1..NumStores :
      Writes(i, op.result[1].content) =
        IF i \in Writable /\ i # op.servedBy THEN 1 ELSE 0

\* after init(), a read served by a writable binding and hot-swapped into a
\* less preferred writable binding
C10_Witness ==
  /\ ReturnedOk("getBlob")
  /\ op.readFrom # ""
  /\ op.servedBy \in Writable
  /\ \E w \in Writable : /\ stores[w].priority > stores[op.servedBy].priority
                         /\ Writes(w, op.result[1].content) = 1

\* C11: a failing hot-swap setBlob does not change the outcome of getBlob:
\* getBlob still returns, with the content and properties the serving
\* binding gave, which are those of the blob in the serving binding.
C11_HotSwapFailureIgnored ==
  (op.name = "getBlob" /\ op.fails # {}) =>
    /\ phase \in {"hotswap", "done"}
    /\ op.result # <<>>
    /\ phase = "done" =>
         /\ ret = Ok(op.result[1])
         /\ ret.value[1] = StoreGetBlob(blobs, op.servedBy, op.blobId, op.range)

\* getBlob returned after every hot-swap write it issued failed
C11_Witness ==
  /\ ReturnedOk("getBlob")
  /\ op.fails # {}
  /\ op.oks = {}
  /\ \A w \in op.fails : ~StoreHas(blobs, w, op.blobId)

\* the names of the methods that need a writable and a readable binding
WriteNames == {"setBlob", "deleteBlob"}
ReadNames == ReadMethods \cup {"blobExists", "listBlobs"}

NoCallInFlight == \A i \in 1..NumStores : pending[i] = <<>>

Deletes(i, id) ==
  Cardinality({n \in 1..Len(issued) : /\ issued[n].tier = i
                                      /\ issued[n].method = "deleteBlob"
                                      /\ issued[n].blobId = id})

\* C13: deleteBlob issues one deleteBlob(id) to every writable binding and to
\* no other; it succeeds only if each of them succeeded; a failure of one of
\* them, NotFound of a binding that lacks the blob included, makes deleteBlob
\* fail with the error of that binding.
C13_DeleteBlobAll ==
  (Returned("deleteBlob") /\ Writable # {}) =>
    /\ \A i \in 1..NumStores :
         Deletes(i, op.blobId) = IF i \in Writable THEN 1 ELSE 0
    /\ Len(issued) = Cardinality(Writable)
    /\ op.fails # {} => ret.status = "err"
    /\ ret.status = "ok" => op.oks = Writable
    /\ ret.status = "err" =>
         /\ ret.error[1].tier \in op.fails
         /\ ret.error[1].msg \in {MsgNotFound, MsgFailure}
         /\ IsNotFound(ret.error[1]) => ret.error[1].blobId = op.blobId

\* deleteBlob failed with NotFound of a writable binding that lacks the blob
\* after it deleted the blob from another one
C13_Witness ==
  /\ Returned("deleteBlob")
  /\ ret.status = "err" /\ IsNotFound(ret.error[1])
  /\ op.oks # {}
  /\ ~StoreHas(blobs, ret.error[1].tier, op.blobId)

\* C14: nothing is rolled back when setBlob or deleteBlob fails: a writable
\* binding whose call succeeded keeps the blob written (has the blob
\* deleted), and setBlob of the same content is idempotent on it.
C14_NoRollback ==
  (phase = "done" /\ op.name \in WriteNames /\ ret.status = "err") =>
    \A w \in op.oks :
      IF op.name = "setBlob"
        THEN /\ op.content \in blobs[w]
             /\ StoreSetBlob(blobs, w, op.content) = blobs
        ELSE ~StoreHas(blobs, w, op.blobId)

\* setBlob failed on one writable binding after it succeeded on another
C14_Witness ==
  /\ Returned("setBlob") /\ ret.status = "err"
  /\ \E w \in op.oks : op.content \in blobs[w]
  /\ \E f \in op.fails : op.content \notin blobs[f]

\* C15: blobExists never fails with the error of a binding; it returns true
\* exactly when some readable binding whose call did not fail holds the
\* blob, a failing binding counting as one that does not hold it.
C15_BlobExists ==
  (Returned("blobExists") /\ Readable # {}) =>
    /\ ret.status = "ok"
    /\ ret.value[1] = (\E i \in Readable \ op.fails : StoreHas(blobs, i, op.blobId))
    /\ ret.value[1] => /\ op.servedBy \in Readable \ op.fails
                       /\ StoreHas(blobs, op.servedBy, op.blobId)
    /\ ~ret.value[1] => {issued[n].tier : n \in 1..Len(issued)} = Readable

\* blobExists answered true by a binding after the call on a preferred one
\* failed
C15_Witness ==
  /\ Returned("blobExists")
  /\ op.fails # {}
  /\ ret = Ok(TRUE)
  /\ op.servedBy \notin op.fails

(***************************************************************************)
(* Properties of listBlobs                                                 *)
(***************************************************************************)
ReturnedList == phase = "done" /\ op.name = "listBlobs" /\ ret.status = "ok"

\* the blobIds store i holds that start with the prefix
ListedBy(i, prefix) == {Hash(c) : c \in {d \in blobs[i] : StartsWith(Hash(d), prefix)}}

\* the blobIds the readable bindings hold, and those held by readable
\* bindings whose listing did not fail
MergedIds == UNION {ListedBy(i, op.opts.prefix) : i \in Readable}
MergedIdsOfSound == UNION {ListedBy(i, op.opts.prefix) : i \in Readable \ op.fails}

RetIds == BlobIdsOf(ret.value[1].blobs)

Ascending(q) == \A j \in 1..(Len(q) - 1) : q[j] < q[j + 1]

\* the first binding in priority order that holds the blobId
FirstHolder(id) ==
  readables[CHOOSE k \in 1..Len(readables) :
              /\ id \in ListedBy(readables[k], op.opts.prefix)
              /\ \A h \in 1..(k - 1) : id \notin ListedBy(readables[h], op.opts.prefix)]

C17_FailedTierSkipped ==
  ReturnedList => Range(RetIds) \subseteq MergedIdsOfSound

\* C18: a readable binding whose listBlobs fails does not make listBlobs
\* fail, the blobs of the other readable bindings are still collected, and
\* when every readable binding fails the result is the empty list without
\* token.
C18_ListFailuresTolerated ==
  (phase = "done" /\ op.name = "listBlobs" /\ Readable # {}) =>
    /\ ret.status = "ok"
    /\ MergedIdsOfSound \subseteq Range(BlobIdsOf(op.blobMap))
    /\ op.fails = Readable =>
         ret = Ok([blobs |-> <<>>, continuationToken |-> <<>>])

\* C19: a caller that starts without token and passes each token returned
\* to the next call, with the same prefix and a maxResults of at least 1,
\* no binding failing, has received, when no token is returned, every
\* blobId of the merged set once and in ascending order; until then it has
\* received the blobIds up to the token.
C19_PaginationStability ==
  (ReturnedList /\ op.chain.active /\ op.opts.maxResults # <<0>>) =>
    /\ Ascending(op.chain.acc)
    /\ IF ret.value[1].continuationToken = <<>>
         THEN Range(op.chain.acc) = MergedIds
         ELSE /\ Range(op.chain.acc) =
                   {id \in MergedIds : id <= ret.value[1].continuationToken[1]}
              /\ Range(op.chain.acc) # MergedIds
              /\ Len(RetIds) = op.opts.maxResults[1]

\* three blobs of two bindings received in three pages of one blob
C19_Witness ==
  /\ ReturnedList /\ op.chain.active
  /\ op.opts.maxResults = <<1>>
  /\ op.opts.continuationToken # <<>>
  /\ ret.value[1].continuationToken = <<>>
  /\ Len(op.chain.acc) = 3
  /\ Cardinality({i \in Readable : blobs[i] # {}}) >= 2

\* the number of blobIds of the set S below id
Below(S, id) == Cardinality({m \in S : m < id})

\* C20: with a token that is the blobId of no merged blob, listBlobs does
\* not fail and returns the page it returns without token: the first
\* maxResults blobs of the merged set.
C20_UnknownTokenRestarts ==
  (phase = "done" /\ op.name = "listBlobs" /\ Readable # {}
     /\ op.opts.continuationToken # <<>>
     /\ op.opts.continuationToken[1] \notin Range(BlobIdsOf(op.blobMap))) =>
    /\ ret.status = "ok"
    /\ ret = Paginate(op.blobMap, op.opts.maxResults, <<>>)
    /\ Ascending(RetIds)
    /\ Range(RetIds) =
         {id \in Range(BlobIdsOf(op.blobMap)) :
            op.opts.maxResults = <<>>
              \/ Below(Range(BlobIdsOf(op.blobMap)), id) < op.opts.maxResults[1]}

\* the token 'invalid' with maxResults 1 over a merged set of three blobs
C20_Witness ==
  /\ ReturnedList
  /\ op.opts.continuationToken = InvalidToken
  /\ op.opts.maxResults = <<1>>
  /\ Len(op.blobMap) = 3
  /\ Len(RetIds) = 1
  /\ ret.value[1].continuationToken = <<RetIds[1]>>

\* the blobIds of the merged set in the order of the sort, and the number
\* of them that come before the page: those up to the token, none for no
\* token and for a token that is not in the set
AllIds == BlobIdsOf(SortByBlobId(op.blobMap))
PageStart ==
  IF op.opts.continuationToken # <<>> /\ op.opts.continuationToken[1] \in Range(AllIds)
    THEN Cardinality({id \in Range(AllIds) : id <= op.opts.continuationToken[1]})
    ELSE 0

\* C21: for every maxResults and token the page of listBlobs holds at most
\* maxResults entries, which follow the start in the merged sorted set; a
\* continuationToken is returned exactly when entries of the set remain
\* after the page, and it is the blobId of the last entry of the page.
C21_TokenIffRemaining ==
  ReturnedList =>
    /\ op.opts.maxResults # <<>> => Len(RetIds) <= op.opts.maxResults[1]
    /\ RetIds = SubSeq(AllIds, PageStart + 1, PageStart + Len(RetIds))
    /\ (ret.value[1].continuationToken # <<>>) <=> (PageStart + Len(RetIds) < Len(AllIds))
    /\ ret.value[1].continuationToken # <<>> =>
         ret.value[1].continuationToken = <<RetIds[Len(RetIds)]>>

(***************************************************************************)
(* Construction with ids supplied by the caller, and init()                *)
(***************************************************************************)
\* ids a caller gives to bindings (BsMultiBs.id is optional)
SuppliedIds == {"cache", "remote"}

BindingsSupplied == {b \in [id : {Undefined} \cup SuppliedIds, priority : Priorities,
                            read : BOOLEAN, write : BOOLEAN] : b.read \/ b.write}

\* new BsMulti(stores): the bindings as the caller wrote them
InitSupplied ==
  /\ stores \in [1..NumStores -> BindingsSupplied]
  /\ blobs \in [1..NumStores -> SUBSET {Target}]
  /\ pending = [i \in 1..NumStores |-> <<>>]
  /\ phase = "idle"
  /\ op = NoOp
  /\ issued = <<>>
  /\ ret = NoRet
  /\ hist = <<>>
  /\ net = NoNet

SpecInit == InitSupplied /\ [][init]_vars

\* C23: init() assigns an id only to a binding that has none: an id the
\* caller supplied at construction is the id of the binding after init().
C23_SuppliedIdKept ==
  [][\A idx \in 1..NumStores :
       stores[idx].id # Undefined => stores'[idx].id = stores[idx].id]_vars

\* C24: every init() leaves each binding with the id 'bs-<index>' of its
\* place in the construction sequence, the ids pairwise distinct, and with
\* its priority, read and write as they were; an init() after the first
\* changes nothing; no init() issues a call to a store or changes what a
\* store holds.
C24_InitIdempotent ==
  [][init =>
       /\ \A idx \in 1..NumStores :
            /\ stores'[idx].id = BsId(idx)
            /\ stores'[idx].priority = stores[idx].priority
            /\ stores'[idx].read = stores[idx].read
            /\ stores'[idx].write = stores[idx].write
       /\ \A i, j \in 1..NumStores : i # j => stores'[i].id # stores'[j].id
       /\ Initialised => stores' = stores
       /\ blobs' = blobs /\ pending' = pending /\ issued' = issued]_vars

\* init() has run on bindings of different priorities, one store holding
\* the blob, and nothing was asked of a store
C24_Witness ==
  /\ Initialised
  /\ stores[1].priority # stores[2].priority
  /\ blobs[1] = {Target} /\ blobs[2] = {}
  /\ SumLen(pending, NumStores) = 0 /\ issued = <<>>

\* view v holds the bindings of S, each once, in ascending order of
\* priority, those of equal priority in the order of _stores
SortedView(v, S) ==
  /\ Range(v) = S
  /\ Len(v) = Cardinality(S)
  /\ \A j, k \in 1..Len(v) :
       j < k => \/ stores[v[j]].priority < stores[v[k]].priority
                \/ /\ stores[v[j]].priority = stores[v[k]].priority
                   /\ v[j] < v[k]

\* C25: readables is the bindings with read = true and writables those with
\* write = true, sorted ascending by priority, bindings of equal priority in
\* the order of the construction sequence, for the bindings as they are
\* when the view is taken.
C25_Views ==
  /\ SortedView(readables, Readable)
  /\ SortedView(writables, Writable)

\* after init() has replaced the bindings: the second binding is read
\* first, and only it is written
C25_Witness ==
  /\ Initialised
  /\ readables = <<2, 1>>
  /\ writables = <<2>>

(***************************************************************************)
(* The reads of BsMulti together with listBlobs                            *)
(***************************************************************************)
ReadNext ==
  \/ init
  \/ \E id \in BlobIds, r \in Ranges : getBlob(id, r)
  \/ \E id \in BlobIds : getBlobStream(id)
  \/ \E id \in BlobIds : getBlobProperties(id)
  \/ \E id \in BlobIds : generateSignedUrl(id)
  \/ \E id \in BlobIds : blobExists(id)
  \/ \E options \in ListBlobsOptions : listBlobs(options)
  \/ \E i \in 1..NumStores, fail \in BOOLEAN : GetBlobSettled(i, fail)
  \/ \E i \in 1..NumStores, fail \in BOOLEAN : HotSwapSettled(i, fail)
  \/ \E i \in 1..NumStores, fail \in BOOLEAN : ReadSettled(i, fail)
  \/ \E i \in 1..NumStores, fail \in BOOLEAN : BlobExistsSettled(i, fail)
  \/ \E i \in 1..NumStores, fail \in BOOLEAN, limit \in StoreLimits :
       ListBlobsSettled(i, fail, limit)

SpecRead == Init /\ [][ReadNext]_vars

NoHotSwapNames ==
  {"getBlobStream", "getBlobProperties", "generateSignedUrl", "blobExists", "listBlobs"}

\* C26: getBlobStream, getBlobProperties, generateSignedUrl, blobExists and
\* listBlobs issue to the stores no call but their own method, so no
\* setBlob and no deleteBlob, and no step of such a call changes what a
\* store holds.
C26_NoHotSwap ==
  /\ [](op.name \in NoHotSwapNames =>
          /\ \A n \in 1..Len(issued) : issued[n].method = op.name
          /\ \A i \in 1..NumStores : \A j \in 1..Len(pending[i]) :
               pending[i][j].method = op.name)
  /\ [][op'.name \in NoHotSwapNames => blobs' = blobs]_vars

\* getBlobProperties answered by the second binding while the first, which
\* is writable, does not hold the blob: the case in which getBlob hot-swaps
C26_Witness ==
  /\ ReturnedOk("getBlobProperties")
  /\ op.servedBy = 2
  /\ stores[1].write
  /\ ~StoreHas(blobs, 1, op.blobId)

(***************************************************************************)
(* A caller that stores and lists: result1 = await setBlob(content),       *)
(* result2 = await setBlob(content), list = await listBlobs()              *)
(***************************************************************************)
\* The caller's await of the method it called returns (or throws): the
\* caller holds the outcome and the outcome of the call it awaited before.
Await ==
  /\ phase = "done"
  /\ hist' = (IF hist = <<>> THEN <<>> ELSE <<hist[Len(hist)]>>)
               \o <<[name |-> op.name,
                     content |-> IF op.name = "setBlob" THEN op.content ELSE <<>>,
                     blobId |-> IF op.name \in {"deleteBlob", "blobExists"}
                                  THEN op.blobId ELSE 0,
                     ret |-> ret]>>
  /\ phase' = "idle"
  /\ UNCHANGED <<stores, blobs, pending, op, issued, ret, net>>

NoOptions == [prefix |-> <<>>, maxResults |-> <<>>, continuationToken |-> <<>>]

StoreNext ==
  \/ init
  \/ \E c \in Contents : setBlob(c)
  \/ \E i \in 1..NumStores, fail \in BOOLEAN : SetBlobSettled(i, fail)
  \/ \E i \in 1..NumStores, fail \in BOOLEAN : StaleSettled(i, fail)
  \/ Await
  \/ listBlobs(NoOptions)
  \/ \E i \in 1..NumStores, fail \in BOOLEAN, limit \in StoreLimits :
       ListBlobsSettled(i, fail, limit)

SpecStore == Init /\ [][StoreNext]_vars

\* the last two calls the caller awaited were setBlob(c) and both succeeded
StoredTwice(c) ==
  /\ Len(hist) = 2
  /\ \A k \in 1..2 : /\ hist[k].name = "setBlob"
                     /\ hist[k].content = c
                     /\ hist[k].ret.status = "ok"

\* the number of entries of the returned list with the blobId
Listed(id) == Cardinality({j \in 1..Len(RetIds) : RetIds[j] = id})

SameIdAndSize(c) ==
  /\ hist[1].ret.value[1].blobId = hist[2].ret.value[1].blobId
  /\ hist[1].ret.value[1].size = hist[2].ret.value[1].size
  /\ hist[1].ret.value[1].blobId = Hash(c)

\* C22 as stated: setBlob(C) called twice returns the same blobId and the
\* same size both times, and the listBlobs that follows contains that
\* blobId exactly once.
C22_StoredTwiceListedOnce ==
  \A c \in Contents :
    StoredTwice(c) =>
      /\ SameIdAndSize(c)
      /\ (phase = "done" /\ op.name = "listBlobs") =>
           /\ ret.status = "ok"
           /\ Listed(Hash(c)) = 1

\* C22: two setBlob(C) that succeed return the same blobId and the same
\* size; a listBlobs that follows and succeeds contains that blobId at most
\* once, and exactly once when some binding is both writable and readable
\* and its listing does not fail.
C22_StoredTwiceListedAtMostOnce ==
  \A c \in Contents :
    StoredTwice(c) =>
      /\ SameIdAndSize(c)
      /\ (phase = "done" /\ op.name = "listBlobs") =>
           /\ ret.status = "ok" => Listed(Hash(c)) <= 1
           /\ (\E i \in (Readable \cap Writable) \ op.fails : TRUE) =>
                /\ ret.status = "ok"
                /\ Listed(Hash(c)) = 1

\* two bindings, both written and both listed, hold the blob that was
\* stored twice; it is listed once
C22_Witness ==
  /\ StoredTwice(Target)
  /\ ReturnedList
  /\ Readable \cap Writable = 1..NumStores
  /\ op.fails = {}
  /\ Listed(Hash(Target)) = 1

(***************************************************************************)
(* The socket layer: a Socket with its listeners, BsPeerBridge and         *)
(* BsServer, which answer events from a Bs, and BsPeer, which emits them.  *)
(* net.bs is what the Bs behind the bridge or the server holds.  The event *)
(* of a Bs method carries the argument of the one blob: its content for    *)
(* setBlob, its blobId for the others.                                     *)
(***************************************************************************)
MaxEvents == 2      \* events emitted on the sockets in a behaviour
MaxListeners == 1   \* listeners a socket holds for one event

\* the methods of the Bs interface
BsMethods == {"setBlob", "getBlob", "getBlobStream", "deleteBlob", "blobExists",
              "getBlobProperties", "listBlobs", "generateSignedUrl"}

\* bsMethods of BsPeerBridge._registerBsMethods
BridgeMethods == {"getBlob", "getBlobStream", "blobExists", "getBlobProperties",
                  "listBlobs"}

\* an event that names no method of the Bs
CustomEvent == "nonExistentMethod"
ConnectEvents == {"connect", "disconnect"}
Events == BsMethods \cup ConnectEvents \cup {CustomEvent}

\* the sockets: the bridge is on socket 1, the clients of a server on both
Sockets == {1, 2}

\* the last argument of an emit: a function, a function that throws when
\* it is called, or something that is not a function
Callbacks == {"function", "throws", "none"}
IsFunction(cb) == cb # "none"

MsgNoMethod == "not found on Bs instance"
MsgCallback == "thrown by the callback"

Void == [void |-> TRUE]

\* The Bs method named m applied to the Bs holding b: what the Bs holds
\* afterwards and how the promise settles.
BsApply(b, m, fail) ==
  LET has == Target \in b
      id == Hash(Target)
  IN IF fail THEN [bs |-> b, out |-> Err(StoreError(1, TRUE, 0))]
     ELSE IF m = "setBlob" THEN [bs |-> b \cup {Target}, out |-> Ok(Props(1, Target))]
     ELSE IF m = "blobExists" THEN [bs |-> b, out |-> Ok([exists |-> has])]
     ELSE IF m = "listBlobs"
       THEN [bs |-> b,
             out |-> Ok(StoreListBlobs(<<b>>, 1, <<>>, <<>>, ChunkSize))]
     ELSE IF ~has THEN [bs |-> b, out |-> Err(StoreError(1, FALSE, id))]
     ELSE IF m = "deleteBlob" THEN [bs |-> b \ {Target}, out |-> Ok(Void)]
     ELSE IF m = "getBlob" THEN [bs |-> b, out |-> Ok(StoreGetBlob(<<b>>, 1, id, NoRange))]
     ELSE [bs |-> b, out |-> Ok(ReadValue(m, <<b>>, 1, id))]

\* A listener: the handler BsPeerBridge.registerEvent or
\* BsServer._addTransportLayer creates, which calls the method of the Bs, or
\* the bridge's handler of connect and disconnect.
Handler(owner, m) == [owner |-> owner, method |-> m]

NoListeners == [s \in Sockets |-> [e \in Events |-> <<>>]]

\* socket.on(e, h) and socket.off(e, h) for the handler registered last
On(l, s, e, h) == [l EXCEPT ![s][e] = Append(@, h)]
Off(l, s, e) == [l EXCEPT ![s][e] = IF @ = <<>> THEN @ ELSE Front(@)]

RECURSIVE OnAll(_, _, _, _)
OnAll(l, s, E, owner) ==
  IF E = {} THEN l
  ELSE LET e == CHOOSE x \in E : TRUE
       IN OnAll(On(l, s, e, Handler(owner, e)), s, E \ {e}, owner)

RECURSIVE OffAll(_, _, _)
OffAll(l, s, E) ==
  IF E = {} THEN l
  ELSE LET e == CHOOSE x \in E : TRUE IN OffAll(Off(l, s, e), s, E \ {e})

\* A callback invocation: err and result are <<>> for null or undefined.
CbCall(by, err, result) == [by |-> by, err |-> err, result |-> result]

NetInit ==
  /\ stores = <<>>
  /\ blobs = <<>>
  /\ pending = <<>>
  /\ phase = "idle"
  /\ op = NoOp
  /\ issued = <<>>
  /\ ret = NoRet
  /\ hist = <<>>
  /\ net \in [bs : SUBSET {Target},
              listeners : {NoListeners},
              eventHandlers : {{}},    \* the keys of BsPeerBridge._eventHandlers
              started : {FALSE},       \* start() has run and stop() has not
              touched : {FALSE},       \* the user called (un)registerEvent
              sockets : {<<>>},        \* BsServer._sockets
              reqs : {<<>>},           \* the events emitted, in order
              runs : {{}}]             \* handlers waiting for their Bs method

NetFrame == UNCHANGED <<stores, blobs, pending, phase, op, issued, ret, hist>>

(***************************************************************************)
(* BsPeerBridge on socket 1                                                *)
(***************************************************************************)
\* a start() that registers every method of the Bs, as BsServer does
startAllMethods ==
  /\ \A e \in BsMethods \cup ConnectEvents : Len(net.listeners[1][e]) < MaxListeners
  /\ net' = [net EXCEPT
               !.listeners = OnAll(OnAll(@, 1, ConnectEvents, "connect"), 1,
                                   BsMethods, "bridge"),
               !.eventHandlers = @ \cup BsMethods,
               !.started = TRUE]
  /\ NetFrame

\* start() while no event has n listeners yet
startUpTo(n) ==
  /\ \A e \in BridgeMethods \cup ConnectEvents : Len(net.listeners[1][e]) < n
  /\ net' = [net EXCEPT
               !.listeners = OnAll(OnAll(@, 1, ConnectEvents, "connect"), 1,
                                   BridgeMethods, "bridge"),
               !.eventHandlers = @ \cup BridgeMethods,
               !.started = TRUE]
  /\ NetFrame

start == startUpTo(MaxListeners)

stop ==
  /\ net' = [net EXCEPT
               !.listeners = OffAll(OffAll(@, 1, ConnectEvents), 1, net.eventHandlers),
               !.eventHandlers = {},
               !.started = FALSE]
  /\ NetFrame

\* registerEvent(eventName, bsMethodName) called by the user of the bridge
registerEventUpTo(e, m, n) ==
  /\ Len(net.listeners[1][e]) < n
  /\ net' = [net EXCEPT !.listeners = On(@, 1, e, Handler("bridge", m)),
                        !.eventHandlers = @ \cup {e},
                        !.touched = TRUE]
  /\ NetFrame

registerEvent(e, m) == registerEventUpTo(e, m, MaxListeners)

unregisterEvent(e) ==
  /\ net' = [net EXCEPT
               !.listeners = IF e \in net.eventHandlers THEN Off(@, 1, e) ELSE @,
               !.eventHandlers = @ \ {e},
               !.touched = TRUE]
  /\ NetFrame

(***************************************************************************)
(* BsServer                                                                *)
(***************************************************************************)
\* addSocket(socket) for a socket that was not added before
addSocket(s) ==
  /\ s \notin Range(net.sockets)
  /\ net' = [net EXCEPT !.listeners = OnAll(@, s, BsMethods, "server"),
                        !.sockets = Append(@, s)]
  /\ NetFrame

\* removeSocket(socket): the socket leaves the list; its listeners stay
removeSocket(s) ==
  /\ net' = [net EXCEPT !.sockets = SelectSeq(@, LAMBDA x : x # s)]
  /\ NetFrame

(***************************************************************************)
(* Events                                                                  *)
(***************************************************************************)
\* the handler is one of the bridge whose method the Bs does not have
Missing(h) == h.owner = "bridge" /\ h.method \notin BsMethods

\* socket.emit(e, ..., cb) on socket s: the listeners of e are called in
\* turn.  The handler of a method the Bs does not have calls the callback
\* with an error, at once; a callback that throws there ends the emit.  Any
\* other handler calls the method of the Bs and waits for its promise.
Emit(s, e, cb) ==
  /\ Len(net.reqs) < MaxEvents
  /\ LET L == net.listeners[s][e]
         k == Len(net.reqs) + 1
         throwsAt == {j \in 1..Len(L) : Missing(L[j]) /\ cb = "throws"}
         last == IF throwsAt = {} THEN Len(L)
                 ELSE CHOOSE j \in throwsAt : \A h \in throwsAt : j <= h
         called == {j \in 1..last : Missing(L[j]) /\ IsFunction(cb)}
         calls == [n \in 1..Cardinality(called) |->
                     CbCall(CHOOSE j \in called : Cardinality({h \in called : h < j}) = n - 1,
                            <<Error(MsgNoMethod, 0, 0)>>, <<>>)]
     IN net' = [net EXCEPT
                  !.reqs = Append(@, [socket |-> s, event |-> e, cb |-> cb,
                                      open |-> net.started,
                                      handled |-> last,
                                      calls |-> calls,
                                      served |-> <<>>,
                                      thrown |-> throwsAt # {}]),
                  !.runs = @ \cup {[req |-> k, by |-> j, owner |-> L[j].owner,
                                    method |-> L[j].method] :
                                     j \in {h \in 1..last : /\ ~Missing(L[h])
                                                            /\ L[h].owner # "connect"}}]
  /\ NetFrame

\* The callbacks of a handler whose Bs method has settled with out.
\* BsPeerBridge: .then(result => callback(null, result))
\*               .catch(error => callback(error, null)),
\* each behind typeof callback === 'function'; the catch also receives what
\* the callback threw in the then.  BsServer does the same without the
\* test, where calling what is not a function throws a TypeError.
HandlerCalls(run, cb, out) ==
  IF ~IsFunction(cb) THEN <<>>
  ELSE IF out.status = "ok"
    THEN <<CbCall(run.by, <<>>, out.value)>>
         \o (IF cb = "throws"
               THEN <<CbCall(run.by, <<Error(MsgCallback, 0, 0)>>, <<>>)>> ELSE <<>>)
    ELSE <<CbCall(run.by, out.error, <<>>)>>

\* The promise of the Bs method a handler called settles: the method takes
\* effect on the Bs and the handler calls the callback.
HandlerSettled(k, j, fail) ==
  /\ \E run \in net.runs :
       /\ run.req = k /\ run.by = j
       /\ LET r == BsApply(net.bs, run.method, fail)
          IN net' = [net EXCEPT
                       !.bs = r.bs,
                       !.runs = @ \ {run},
                       !.reqs[k].served = Append(@, [by |-> j, out |-> r.out]),
                       !.reqs[k].calls = @ \o HandlerCalls(run, net.reqs[k].cb, r.out)]
  /\ NetFrame

(***************************************************************************)
(* BsPeer                                                                  *)
(***************************************************************************)
\* a callback that resolves whatever it is called with
PeerPromiseResolves(req) ==
  IF req.calls = <<>> THEN NoRet
  ELSE IF req.calls[1].result # <<>> THEN Ok(req.calls[1].result[1]) ELSE Ok(Void)

\* The promise a method of BsPeer returns, settled by the first call of
\* (error, result) => { if (error) reject(error); else resolve(result) }
PeerPromise(req) ==
  IF req.calls = <<>> THEN NoRet
  ELSE IF req.calls[1].err # <<>> THEN Err(req.calls[1].err[1])
  ELSE IF req.calls[1].result # <<>> THEN Ok(req.calls[1].result[1]) ELSE Ok(Void)

\* a method of BsPeer is called: it emits the event of its name with its
\* callback
PeerCall(s, m) == Emit(s, m, "function")

(***************************************************************************)
(* Specifications of the socket layer                                      *)
(***************************************************************************)
\* what a user registers besides start(): a method twice, a write method,
\* an event under the name of another method, a method the Bs does not have
Registrations == {<<"getBlob", "getBlob">>, <<"setBlob", "setBlob">>,
                  <<CustomEvent, "deleteBlob">>, <<CustomEvent, CustomEvent>>}

BridgeNext ==
  \/ start
  \/ stop
  \/ \E r \in Registrations : registerEvent(r[1], r[2])
  \/ \E r \in Registrations : unregisterEvent(r[1])
  \/ \E e \in BsMethods \cup {CustomEvent}, cb \in Callbacks : Emit(1, e, cb)
  \/ \E k \in 1..MaxEvents, j \in 1..MaxListeners, fail \in BOOLEAN :
       HandlerSettled(k, j, fail)

SpecBridge == NetInit /\ [][BridgeNext]_vars

PullNext ==
  \/ start
  \/ \E m \in BsMethods : PeerCall(1, m)
  \/ \E k \in 1..MaxEvents, j \in 1..MaxListeners, fail \in BOOLEAN :
       HandlerSettled(k, j, fail)

\* a promise of the Bs settles and its callbacks run
SpecPull ==
  /\ NetInit /\ [][PullNext]_vars
  /\ WF_vars(\E k \in 1..MaxEvents, j \in 1..MaxListeners, fail \in BOOLEAN :
               HandlerSettled(k, j, fail))

ServerNext ==
  \/ \E s \in Sockets : addSocket(s)
  \/ \E s \in Sockets, m \in BsMethods : PeerCall(s, m)
  \/ \E k \in 1..MaxEvents, j \in 1..MaxListeners, fail \in BOOLEAN :
       HandlerSettled(k, j, fail)

SpecServer == NetInit /\ [][ServerNext]_vars

ExpectedCalls(k, j) ==
  LET served == {n \in 1..Len(net.reqs[k].served) : net.reqs[k].served[n].by = j}
  IN IF \E run \in net.runs : run.req = k /\ run.by = j THEN <<>>
     ELSE IF served = {} THEN <<CbCall(j, <<Error(MsgNoMethod, 0, 0)>>, <<>>)>>
     ELSE LET out == net.reqs[k].served[CHOOSE n \in served : TRUE].out
          IN IF out.status = "ok" THEN <<CbCall(j, <<>>, out.value)>>
             ELSE <<CbCall(j, out.error, <<>>)>>

\* C28: every handler of the bridge that handles an event whose last
\* argument is a function calls it exactly once, with (null, result) when
\* the Bs method resolved and with (error, null) when it rejected or the
\* Bs has no such method; when the last argument is not a function nothing
\* is called and nothing is thrown.
C28_CallbackOnce ==
  \A k \in 1..Len(net.reqs) :
    LET r == net.reqs[k]
    IN IF IsFunction(r.cb)
         THEN \A j \in 1..r.handled :
                SelectSeq(r.calls, LAMBDA c : c.by = j) = ExpectedCalls(k, j)
         ELSE r.calls = <<>> /\ ~r.thrown

\* the outcome of the method of event k applied to the Bs when it was
\* served
Direct(k) == net.reqs[k].served[1].out

\* the promise of request k was pending and is resolved by this step
Resolves(k) ==
  /\ k <= Len(net.reqs)
  /\ PeerPromise(net.reqs[k]) = NoRet
  /\ PeerPromise(net'.reqs[k]).status = "ok"

\* C29: a method called on a BsPeer whose socket was added once to the
\* server is served once; its promise is pending until then and settles
\* as the method applied to the Bs of the server at that moment settles,
\* with the same result or the same error; when the promise of a setBlob
\* (deleteBlob) resolves, the Bs of the server holds (does not hold) the
\* blob, which is what every client is answered from.
C29_Transparent ==
  /\ [](\A k \in 1..Len(net.reqs) :
          /\ Len(net.reqs[k].served) <= 1
          /\ IF net.reqs[k].served = <<>>
               THEN PeerPromise(net.reqs[k]) = NoRet
               ELSE /\ PeerPromise(net.reqs[k]) = Direct(k)
                    /\ Len(net.reqs[k].calls) = 1)
  /\ [][\A k \in 1..MaxEvents :
          Resolves(k) =>
            /\ net.reqs[k].event = "setBlob" => Target \in net'.bs
            /\ net.reqs[k].event = "deleteBlob" => Target \notin net'.bs]_vars

\* one client deleted the blob, the other client asked for it afterwards
\* and was told that it does not exist
C29_Witness ==
  /\ Len(net.reqs) = 2
  /\ net.reqs[1].socket = 1 /\ net.reqs[1].event = "deleteBlob"
  /\ PeerPromise(net.reqs[1]) = Ok(Void)
  /\ net.reqs[2].socket = 2 /\ net.reqs[2].event = "blobExists"
  /\ PeerPromise(net.reqs[2]) = Ok([exists |-> FALSE])

\* C30: the promise of a setBlob or deleteBlob that a BsPeer called on the
\* socket of a started bridge is eventually rejected.
C30_WriteRejected ==
  \A k \in 1..MaxEvents :
    (/\ k <= Len(net.reqs)
     /\ net.reqs[k].event \in {"setBlob", "deleteBlob"}
     /\ net.reqs[k].open)
    ~> (k <= Len(net.reqs) /\ PeerPromise(net.reqs[k]).status = "err")

(***************************************************************************)
(* The order of the calls a read makes                                     *)
(***************************************************************************)
FanOutNames == ReadMethods \cup {"blobExists"}

\* the calls of the read on its readables, in the order of their issue
ReadsIssued(iss) == SelectSeq(iss, LAMBDA p : p.method \in FanOutNames)

\* the calls on the readables that have not settled
ReadsInFlight ==
  {<<i, j>> \in (1..NumStores) \X (1..2 * NumStores) :
     j <= Len(pending[i]) /\ pending[i][j].method \in FanOutNames}

\* a step inside a read that contacts one more readable
ContactsNext ==
  /\ phase = "reading" /\ phase' = "reading"
  /\ ReadsIssued(issued') # ReadsIssued(issued)

\* C31: a read contacts its readables one at a time, in ascending order of
\* priority: the calls it has issued are those on a leading part of the
\* readables, at most one of them has not settled, and none is issued once
\* a binding has served the read; the step that contacts the next readable
\* is the step in which the call on the readable before it settles with a
\* failure (blobExists: with false or a failure).
C31_Sequential ==
  /\ [](op.name \in FanOutNames =>
          LET reads == ReadsIssued(issued)
          IN /\ Len(reads) <= Len(readables)
             /\ \A j \in 1..Len(reads) : reads[j].tier = readables[j]
             /\ \A j \in 1..(Len(reads) - 1) :
                  stores[reads[j].tier].priority <= stores[reads[j + 1].tier].priority
             /\ Cardinality(ReadsInFlight) <= 1
             /\ \A x \in ReadsInFlight :
                  /\ phase = "reading"
                  /\ x = <<reads[Len(reads)].tier, 1>>
             /\ op.servedBy # 0 =>
                  /\ phase # "reading"
                  /\ reads[Len(reads)].tier = op.servedBy)
  /\ [][ContactsNext =>
          LET reads == ReadsIssued(issued)
              prev == reads[Len(reads)]
          IN /\ ReadsIssued(issued') = Append(reads, issued'[Len(issued')])
             /\ ReadsInFlight = {<<prev.tier, 1>>}
             /\ ReadsInFlight' = {<<issued'[Len(issued')].tier, 1>>}
             /\ issued'[Len(issued')].tier # prev.tier
             /\ op'.servedBy = 0 /\ ret' = NoRet
             /\ IF op.name = "blobExists"
                  THEN op'.fails \in {op.fails, op.fails \cup {prev.tier}}
                  ELSE /\ Len(op'.errors) = Len(op.errors) + 1
                       /\ op'.errors[Len(op'.errors)].tier = prev.tier]_vars

\* blobExists found the blob in the second readable after the first one had
\* answered false
C31_Witness ==
  /\ ReturnedOk("blobExists")
  /\ Len(ReadsIssued(issued)) = 2
  /\ op.fails = {}
  /\ ret = Ok(TRUE)
  /\ op.servedBy = readables[2]

(***************************************************************************)
(* getBlob called whether or not init() has run.  Without init() the       *)
(* bindings have no id: readFrom is '' and no writable is filtered out.    *)
(***************************************************************************)
getBlobAnyTime(id, r) ==
  /\ ~Busy
  /\ NoCallInFlight
  /\ ReadEntry("getBlob", id, r)

AnyTimeNext ==
  \/ init
  \/ \E id \in BlobIds, r \in Ranges : getBlobAnyTime(id, r)
  \/ \E i \in 1..NumStores, fail \in BOOLEAN : GetBlobSettled(i, fail)
  \/ \E i \in 1..NumStores, fail \in BOOLEAN : HotSwapSettled(i, fail)

SpecAnyTime == Init /\ [][AnyTimeNext]_vars

\* the hot-swap writes of the getBlob, in the order of their issue
HotSwapWrites(iss) == SelectSeq(iss, LAMBDA p : p.method = "setBlob")

\* the calls that have not settled
InFlight == {<<i, j>> \in (1..NumStores) \X (1..2 * NumStores) : j <= Len(pending[i])}

\* C32: the hot-swap writes of a getBlob are all issued in the step in
\* which the read succeeds, before any of them has settled, and getBlob
\* returns in the step in which the last of them settles, whether they
\* succeed or fail: when getBlob has returned every hot-swap write it issued
\* has resolved or rejected.
C32_AwaitsHotSwap ==
  /\ [](Returned("getBlob") =>
          /\ InFlight = {}
          /\ {HotSwapWrites(issued)[n].tier : n \in 1..Len(HotSwapWrites(issued))}
               = op.oks \cup op.fails)
  /\ [](phase = "hotswap" => InFlight # {})
  /\ [][(op'.name = "getBlob" /\ HotSwapWrites(issued') # HotSwapWrites(issued)
           /\ HotSwapWrites(issued') # <<>>) =>
         /\ phase = "reading" /\ phase' = "hotswap"
         /\ HotSwapWrites(issued) = <<>>
         /\ \A n \in 1..Len(HotSwapWrites(issued')) :
              /\ pending'[HotSwapWrites(issued')[n].tier]
                   = <<HotSwapWrites(issued')[n]>>
              /\ \A m \in 1..(n - 1) :
                   HotSwapWrites(issued')[m].tier # HotSwapWrites(issued')[n].tier]_vars

\* getBlob has returned after two hot-swap writes that were in flight
\* together, of which one failed and one stored the blob
C32_Witness ==
  /\ ReturnedOk("getBlob")
  /\ Len(HotSwapWrites(issued)) = 2
  /\ op.oks # {} /\ op.fails # {}

\* C33: no step of a getBlob adds to a store a blob whose blobId is not the
\* blobId the getBlob was called with.
C33_HotSwapSameId ==
  [][(op.name = "getBlob" /\ phase \in {"reading", "hotswap"}) =>
       \A i \in 1..NumStores :
         \A c \in blobs'[i] \ blobs[i] : Hash(c) = op.blobId]_vars

\* the bindings the getBlob has issued a hot-swap write to
HotSwapTiers == {HotSwapWrites(issued)[n].tier : n \in 1..Len(HotSwapWrites(issued))}

NoIds == \A idx \in 1..NumStores : stores[idx].id = Undefined

MaxCalls == 2       \* calls of BsMulti under way at the same time

Callers == 1..MaxCalls

\* bindings that are all writable and hold the same blobs
ReplicaInit ==
  /\ stores \in [1..NumStores -> {b \in Bindings : b.write}]
  /\ blobs \in {[i \in 1..NumStores |-> S] : S \in SUBSET {Target}}
  /\ pending = [i \in 1..NumStores |-> <<>>]
  /\ phase = [c \in Callers |-> "idle"]
  /\ op = [c \in Callers |-> NoOp]
  /\ issued = <<>>
  /\ ret = [c \in Callers |-> NoRet]
  /\ hist = <<>>
  /\ net = NoNet

ReplicaFrame == UNCHANGED <<stores, issued, hist, net>>

\* a call of caller c on store tier; "hotSwap" is the setBlob of a hot-swap
CallBy(c, tier, method, id, content) ==
  [caller |-> c, tier |-> tier, method |-> method, blobId |-> id,
   content |-> content, stale |-> FALSE]

\* the calls of caller c that have not settled
Outstanding(pend, c) ==
  {i \in 1..NumStores : \E j \in 1..Len(pend[i]) :
     pend[i][j].caller = c /\ ~pend[i][j].stale}

\* the calls of caller c are left to themselves: its Promise.all rejected
Abandon(pend, c) ==
  [i \in 1..NumStores |->
     [j \in 1..Len(pend[i]) |->
        IF pend[i][j].caller = c THEN [pend[i][j] EXCEPT !.stale = TRUE] ELSE pend[i][j]]]

\* the head of the queue of store i is a call of this method that its
\* caller still waits for
Serves(i, method) ==
  /\ pending[i] # <<>>
  /\ Head(pending[i]).method = method
  /\ ~Head(pending[i]).stale

\* init() while no call is under way
initReplicas ==
  /\ \A c \in Callers : phase[c] \in {"idle", "done"}
  /\ stores' = [idx \in 1..NumStores |-> [stores[idx] EXCEPT !.id = BsId(idx)]]
  /\ UNCHANGED <<blobs, pending, phase, op, issued, ret, hist, net>>

\* setBlob(content) and deleteBlob(blobId) by caller c: one call to every
\* writable, all issued before the first await
WriteConcurrent(c, method, id, content) ==
  /\ Initialised
  /\ phase[c] = "idle"
  /\ op' = [op EXCEPT ![c] = [NoOp EXCEPT !.name = method, !.blobId = id,
                                          !.content = content]]
  /\ IF Len(writables) = 0
       THEN /\ phase' = [phase EXCEPT ![c] = "done"]
            /\ ret' = [ret EXCEPT ![c] = Err(Error(MsgNoWritable, 0, 0))]
            /\ UNCHANGED pending
       ELSE /\ phase' = [phase EXCEPT ![c] = "awaitAll"]
            /\ pending' = Enqueue(pending, [j \in 1..Len(writables) |->
                                    CallBy(c, writables[j], method, id, content)])
            /\ UNCHANGED ret
  /\ UNCHANGED blobs
  /\ ReplicaFrame

setBlobConcurrent(c, content) == WriteConcurrent(c, "setBlob", 0, content)

deleteBlobConcurrent(c, id) == WriteConcurrent(c, "deleteBlob", id, <<>>)

\* getBlob(blobId) by caller c, up to the await of the first readable
getBlobConcurrent(c, id) ==
  /\ Initialised
  /\ phase[c] = "idle"
  /\ IF Len(readables) = 0
       THEN /\ op' = [op EXCEPT ![c] = [NoOp EXCEPT !.name = "getBlob", !.blobId = id]]
            /\ phase' = [phase EXCEPT ![c] = "done"]
            /\ ret' = [ret EXCEPT ![c] = Err(Error(MsgNoReadable, 0, 0))]
            /\ UNCHANGED pending
       ELSE /\ op' = [op EXCEPT ![c] = [NoOp EXCEPT !.name = "getBlob", !.blobId = id,
                                                    !.rds = readables, !.k = 1]]
            /\ phase' = [phase EXCEPT ![c] = "reading"]
            /\ pending' = Enqueue(pending, <<CallBy(c, readables[1], "getBlob", id, <<>>)>>)
            /\ UNCHANGED ret
  /\ UNCHANGED blobs
  /\ ReplicaFrame

\* store i settles a setBlob or deleteBlob of a caller that awaits
\* Promise.all of its writes
WriteSettledConcurrent(i) ==
  /\ pending[i] # <<>>
  /\ Head(pending[i]).method \in {"setBlob", "deleteBlob"}
  /\ ~Head(pending[i]).stale
  /\ LET call == Head(pending[i])
         c == call.caller
     IN /\ phase[c] = "awaitAll"
        /\ IF call.method = "deleteBlob" /\ ~StoreHas(blobs, i, call.blobId)
             THEN /\ blobs' = blobs
                  /\ op' = [op EXCEPT ![c].fails = @ \cup {i}]
                  /\ pending' = Abandon(Dequeue(pending, i), c)
                  /\ phase' = [phase EXCEPT ![c] = "done"]
                  /\ ret' = [ret EXCEPT ![c] = Err(StoreError(i, FALSE, call.blobId))]
             ELSE /\ blobs' = IF call.method = "setBlob"
                                THEN StoreSetBlob(blobs, i, call.content)
                                ELSE StoreDeleteBlob(blobs, i, call.blobId)
                  /\ op' = [op EXCEPT ![c].oks = @ \cup {i}]
                  /\ pending' = Dequeue(pending, i)
                  /\ IF Outstanding(pending', c) = {}
                       THEN /\ phase' = [phase EXCEPT ![c] = "done"]
                            /\ ret' = [ret EXCEPT ![c] =
                                         IF call.method = "setBlob"
                                           THEN Ok(Props(writables[1], call.content))
                                           ELSE Ok("void")]
                       ELSE UNCHANGED <<phase, ret>>
  /\ ReplicaFrame

\* store i settles the getBlob of a caller: NotFound goes on to the next
\* readable, a result breaks the loop and issues the hot-swap writes
GetBlobSettledConcurrent(i) ==
  /\ Serves(i, "getBlob")
  /\ LET call == Head(pending[i])
         c == call.caller
     IN /\ phase[c] = "reading"
        /\ blobs' = blobs
        /\ IF ~StoreHas(blobs, i, call.blobId)
             THEN /\ op' = [op EXCEPT
                              ![c].errors = Append(@, StoreError(i, FALSE, call.blobId)),
                              ![c].fails = @ \cup {i},
                              ![c].k = IF @ < Len(op[c].rds) THEN @ + 1 ELSE @]
                  /\ IF op[c].k < Len(op[c].rds)
                       THEN /\ pending' = Enqueue(Dequeue(pending, i),
                                            <<CallBy(c, op[c].rds[op[c].k + 1], "getBlob",
                                                     call.blobId, <<>>)>>)
                            /\ UNCHANGED <<phase, ret>>
                       ELSE /\ pending' = Dequeue(pending, i)
                            /\ phase' = [phase EXCEPT ![c] = "done"]
                            /\ ret' = [ret EXCEPT ![c] =
                                         Err(Reconcile(op'[c].errors, call.blobId))]
             ELSE LET result == StoreGetBlob(blobs, i, call.blobId, NoRange)
                      readFrom == IF stores[i].id = Undefined THEN "" ELSE stores[i].id
                      targets == IF Len(writables) > 0 THEN HotSwapTargets(readFrom) ELSE <<>>
                  IN /\ op' = [op EXCEPT ![c].result = <<result>>,
                                         ![c].readFrom = readFrom,
                                         ![c].servedBy = i]
                     /\ pending' = Enqueue(Dequeue(pending, i),
                                     [j \in 1..Len(targets) |->
                                        CallBy(c, targets[j], "hotSwap", 0, result.content)])
                     /\ IF Len(targets) = 0
                          THEN /\ phase' = [phase EXCEPT ![c] = "done"]
                               /\ ret' = [ret EXCEPT ![c] = Ok(result)]
                          ELSE /\ phase' = [phase EXCEPT ![c] = "hotswap"]
                               /\ UNCHANGED ret
  /\ ReplicaFrame

\* store i settles a hot-swap setBlob
HotSwapSettledConcurrent(i) ==
  /\ Serves(i, "hotSwap")
  /\ LET call == Head(pending[i])
         c == call.caller
     IN /\ phase[c] = "hotswap"
        /\ blobs' = StoreSetBlob(blobs, i, call.content)
        /\ op' = [op EXCEPT ![c].oks = @ \cup {i}]
        /\ pending' = Dequeue(pending, i)
        /\ IF Outstanding(pending', c) = {}
             THEN /\ phase' = [phase EXCEPT ![c] = "done"]
                  /\ ret' = [ret EXCEPT ![c] = Ok(op[c].result[1])]
             ELSE UNCHANGED <<phase, ret>>
  /\ ReplicaFrame

\* store i settles a write its caller no longer waits for
StaleSettledConcurrent(i) ==
  /\ pending[i] # <<>> /\ Head(pending[i]).stale
  /\ pending' = Dequeue(pending, i)
  /\ blobs' = IF Head(pending[i]).method = "deleteBlob"
                THEN StoreDeleteBlob(blobs, i, Head(pending[i]).blobId)
                ELSE StoreSetBlob(blobs, i, Head(pending[i]).content)
  /\ UNCHANGED <<phase, op, ret>>
  /\ ReplicaFrame

ReplicaNext ==
  \/ initReplicas
  \/ \E c \in Callers : setBlobConcurrent(c, Target)
  \/ \E c \in Callers, id \in BlobIds : deleteBlobConcurrent(c, id)
  \/ \E c \in Callers, id \in BlobIds : getBlobConcurrent(c, id)
  \/ \E i \in 1..NumStores : WriteSettledConcurrent(i)
  \/ \E i \in 1..NumStores : GetBlobSettledConcurrent(i)
  \/ \E i \in 1..NumStores : HotSwapSettledConcurrent(i)
  \/ \E i \in 1..NumStores : StaleSettledConcurrent(i)

SpecReplica == ReplicaInit /\ [][ReplicaNext]_vars

\* every call made has returned and no store call is left
AllCompleted ==
  /\ \A c \in Callers : phase[c] \in {"idle", "done"}
  /\ \A i \in 1..NumStores : pending[i] = <<>>

\* no call on a store has failed
AllTierCallsSucceeded == \A c \in Callers : op[c].fails = {}

\* C34: when the calls made concurrently have all completed and no call on
\* a store has failed, the writable bindings hold the same blobs.
C34_ReplicaAgreement ==
  (AllCompleted /\ AllTierCallsSucceeded) =>
    \A i, j \in Writable : blobs[i] = blobs[j]

(***************************************************************************)
(* A caller that deletes and asks: await deleteBlob(id), then              *)
(* await blobExists(id)                                                    *)
(***************************************************************************)
DeleteNext ==
  \/ init
  \/ \E id \in BlobIds : phase = "idle" /\ deleteBlob(id)
  \/ \E id \in BlobIds : phase = "idle" /\ blobExists(id)
  \/ \E i \in 1..NumStores, fail \in BOOLEAN : DeleteBlobSettled(i, fail)
  \/ \E i \in 1..NumStores, fail \in BOOLEAN : BlobExistsSettled(i, fail)
  \/ \E i \in 1..NumStores, fail \in BOOLEAN : StaleSettled(i, fail)
  \/ Await

SpecDelete == Init /\ [][DeleteNext]_vars

\* the call the caller awaited last was deleteBlob(id), and it succeeded
JustDeleted(id) ==
  /\ hist # <<>>
  /\ hist[Len(hist)].name = "deleteBlob"
  /\ hist[Len(hist)].blobId = id
  /\ hist[Len(hist)].ret.status = "ok"

\* the bindings that are read but not written
ReadOnly == {i \in 1..NumStores : stores[i].read /\ ~stores[i].write}

\* C36: when deleteBlob(id) has succeeded no writable binding holds id; the
\* blobExists(id) the caller makes next, if no call on a binding fails,
\* returns true when a binding with read and without write holds id and
\* false when none does (without a readable binding it throws and returns
\* nothing); and no step of a deleteBlob changes what a binding without
\* write holds.
C36_DeleteThenExists ==
  /\ [](ReturnedOk("deleteBlob") =>
          \A w \in Writable : ~StoreHas(blobs, w, op.blobId))
  /\ []((Returned("blobExists") /\ JustDeleted(op.blobId) /\ op.fails = {}) =>
          IF Readable = {}
            THEN ret = Err(Error(MsgNoReadable, 0, 0)) /\ ReadOnly = {}
            ELSE ret = Ok(\E i \in ReadOnly : StoreHas(blobs, i, op.blobId)))
  /\ [][(op.name = "deleteBlob" /\ phase = "awaitAll") =>
          \A i \in 1..NumStores : ~stores[i].write => blobs'[i] = blobs[i]]_vars

\* the blob was deleted from the writable binding that held it, and
\* blobExists still finds it in the binding that is only read
C36_Witness ==
  /\ Returned("blobExists") /\ JustDeleted(op.blobId) /\ op.fails = {}
  /\ ret = Ok(TRUE)
  /\ Writable # {}
  /\ hist[Len(hist)].ret = Ok("void")
  /\ Len(hist) = 2 /\ hist[1].name = "blobExists" /\ hist[1].ret = Ok(TRUE)

(***************************************************************************)
(* listBlobs with stores that answer: the promise of a store's listBlobs   *)
(* settles, and the continuation of the collection loop runs               *)
(***************************************************************************)
\* What a step of ListBlobsSettled shows of itself in phase and issued: the
\* loop requests one more page, or listBlobs returns.  It is enabled
\* exactly while a listBlobs is under way, which always has its one call in
\* flight.
StoreAnswers ==
  /\ phase = "listing"
  /\ \/ /\ phase' = "listing"
        /\ \E i \in 1..NumStores :
             issued' = Append(issued, Call(i, "listBlobs", 0, <<>>, NoRange))
     \/ /\ phase' = "done"
        /\ issued' = issued

SpecListFair ==
  /\ ListInit
  /\ [][ListNext]_vars
  /\ WF_<<phase, issued>>(StoreAnswers)

\* every blob the readable under collection lists has been merged: the
\* listing of the readable was followed to its page without token
CollectedAll(blobMap) ==
  ListedBy(op.rds[op.k], op.opts.prefix) \subseteq Range(BlobIdsOf(blobMap))

\* the tokens the readable under collection may have delivered with its page
PageTokens ==
  {StoreListBlobs(blobs, op.rds[op.k], op.opts.prefix, op.storeToken,
                  Min(ChunkSize, limit)).continuationToken : limit \in StoreLimits}

\* C37: a listBlobs under way returns; inside it, a step that stays with a
\* readable requests its next page with the token of the page just
\* delivered, and a step that leaves a readable (for the next one, or for
\* the end of the loop) is one in which its call failed or its page came
\* without token, so that every blob it lists has been merged.
C37_ListTerminates ==
  /\ (phase = "listing") ~> (phase = "done")
  /\ [][(phase = "listing" /\ phase' = "listing" /\ op'.k = op.k) =>
          /\ op'.storeToken # <<>>
          /\ op'.storeToken \in PageTokens
          /\ op'.fails = op.fails
          /\ issued' = Append(issued, Call(op.rds[op.k], "listBlobs", 0, <<>>, NoRange))]_vars
  /\ [][(phase = "listing" /\ (phase' = "done" \/ op'.k # op.k)) =>
          /\ \/ op'.fails = op.fails \cup {op.rds[op.k]}
             \/ op'.fails = op.fails /\ CollectedAll(op'.blobMap)
          /\ op'.storeToken = <<>>]_vars

\* listBlobs has returned after it took two pages from each of two readables
C37_Witness ==
  /\ ReturnedList
  /\ Len(issued) = 4
  /\ op.fails = {}
  /\ Len(op.blobMap) = 3

(***************************************************************************)
(* The life of a bridge: start(), registerEvent() and unregisterEvent()    *)
(* called in any order and more than once, stop(), and events emitted in   *)
(* between                                                                 *)
(***************************************************************************)
MaxAttached == 2    \* listeners the bridge attaches to one event

LifeEvents == {"getBlob", "setBlob"}

LifeNext ==
  \/ startUpTo(MaxAttached)
  \/ stop
  \/ \E e \in LifeEvents : registerEventUpTo(e, e, MaxAttached)
  \/ \E e \in LifeEvents : unregisterEvent(e)
  \/ \E e \in LifeEvents : Emit(1, e, "function")

SpecLife == NetInit /\ [][LifeNext]_vars

\* the events of Bs methods and of the user, which the bridge registers
\* through registerEvent
Registered == BsMethods \cup {CustomEvent}

\* an emit of event e calls no listener: no method of the Bs is called and
\* the callback is not called
Unheard(e) ==
  \A cb \in Callbacks :
    Emit(1, e, cb) =>
      /\ net'.runs = net.runs
      /\ net'.reqs[Len(net'.reqs)].handled = 0
      /\ net'.reqs[Len(net'.reqs)].calls = <<>>

\* C38: after stop() no event has a listener of the bridge and the handler
\* map is empty; after unregisterEvent(e) the event e has no listener and no
\* entry in the map; an event emitted while it has no listener calls neither
\* the Bs nor the callback.
C38_Detached ==
  /\ [][stop => /\ \A e \in Events : net'.listeners[1][e] = <<>>
                /\ net'.eventHandlers = {}]_vars
  /\ [][\A e \in Registered :
          unregisterEvent(e) => /\ net'.listeners[1][e] = <<>>
                                /\ e \notin net'.eventHandlers]_vars
  /\ [][\A e \in Registered : net.listeners[1][e] = <<>> => Unheard(e)]_vars

(***************************************************************************)
(* A server whose sockets come and go                                      *)
(***************************************************************************)
ServerLifeNext ==
  \/ \E s \in Sockets : net.listeners[s]["getBlob"] = <<>> /\ addSocket(s)
  \/ \E s \in Sockets : removeSocket(s)
  \/ \E s \in Sockets, m \in BsMethods : PeerCall(s, m)
  \/ \E k \in 1..MaxEvents, j \in 1..MaxListeners, fail \in BOOLEAN :
       HandlerSettled(k, j, fail)

SpecServerLife == NetInit /\ [][ServerLifeNext]_vars

\* the handlers an emit has started, each calling a method of the Bs
Started == net'.runs \ net.runs

\* C39: a request emitted on a socket that is not among the sockets of the
\* server (it was removed, or never added) calls no method of the Bs; a
\* request emitted on a socket that is among them calls the method of its
\* name.
C39_RemovedNotServed ==
  [][\A s \in Sockets, m \in BsMethods :
       PeerCall(s, m) =>
         IF s \in Range(net.sockets)
           THEN \E run \in Started : run.owner = "server" /\ run.method = m
           ELSE Started = {}]_vars

(***************************************************************************)
(* BsPeer and its socket                                                   *)
(***************************************************************************)
MaxPeerListeners == 4   \* listeners the socket holds for one event

\* net holds the peer and its PeerSocketMock
PeerInit ==
  /\ stores = <<>>
  /\ blobs = <<>>
  /\ pending = <<>>
  /\ phase = "idle"
  /\ op = NoOp
  /\ issued = <<>>
  /\ ret = NoRet
  /\ hist = <<>>
  /\ net = [connected |-> FALSE,           \* PeerSocketMock.connected
            on |-> [e \in ConnectEvents |-> <<>>],   \* its _listenersMap
            isOpen |-> FALSE,              \* BsPeer.isOpen
            inited |-> FALSE,              \* an init() has resolved
            call |-> "none",               \* the last step: a call or an event
            resolved |-> {},               \* the promises the last step resolved
            rejected |-> FALSE]            \* the last step rejected its promise

\* one listener of the socket is called
Listener(n, cb) ==
  CASE cb = "setOpen" -> [n EXCEPT !.isOpen = TRUE]
    [] cb = "setClosed" -> [n EXCEPT !.isOpen = FALSE]
    [] cb = "resolveInit" -> [n EXCEPT !.resolved = @ \cup {"init"},
                                       !.inited = TRUE]
    [] cb = "resolveClose" -> [n EXCEPT !.resolved = @ \cup {"close"}]

\* the listeners q are called in the order of their registration
RECURSIVE Notify(_, _)
Notify(n, q) ==
  IF q = <<>> THEN n ELSE Notify(Listener(n, Head(q)), Tail(q))

\* socket.on(e, cb)
on(n, e, cb) == [n EXCEPT !.on[e] = Append(@, cb)]

\* socket.connect() and socket.disconnect(): the flag, then the listeners
connect(n) == Notify([n EXCEPT !.connected = TRUE], n.on["connect"])

disconnect(n) == Notify([n EXCEPT !.connected = FALSE], n.on["disconnect"])

\* the peer or the socket starts a step
Step(name) == [net EXCEPT !.call = name, !.resolved = {}, !.rejected = FALSE]

\* an init() on a socket whose on() registers nothing
peerInitUnheard ==
  /\ \A e \in ConnectEvents : Len(net.on[e]) < MaxPeerListeners
  /\ LET n == connect(Step("init"))
     IN  net' = IF n.connected
                  THEN [n EXCEPT !.isOpen = TRUE,
                                 !.resolved = @ \cup {"init"},
                                 !.inited = TRUE]
                  ELSE n
  /\ NetFrame

\* BsPeer.init()
peerInit ==
  /\ \A e \in ConnectEvents : Len(net.on[e]) < MaxPeerListeners
  /\ LET n == connect(on(on(Step("init"), "connect", "setOpen"),
                         "disconnect", "setClosed"))
     IN  net' = IF n.connected
                  THEN [n EXCEPT !.isOpen = TRUE,
                                 !.resolved = @ \cup {"init"},
                                 !.inited = TRUE]
                  ELSE on(n, "connect", "resolveInit")
  /\ NetFrame

\* BsPeer.close()
peerClose ==
  /\ IF ~net.connected
       THEN net' = [Step("close") EXCEPT !.resolved = {"close"}]
       ELSE /\ Len(net.on["disconnect"]) < MaxPeerListeners
            /\ net' = disconnect(on(Step("close"), "disconnect", "resolveClose"))
  /\ NetFrame

\* BsPeer.isReady()
peerIsReady ==
  /\ net' = [Step("isReady") EXCEPT !.isOpen = net.connected,
                                    !.resolved = IF net.connected
                                                   THEN {"isReady"} ELSE {},
                                    !.rejected = ~net.connected]
  /\ NetFrame

\* the socket connects or disconnects by itself
connectEvent ==
  /\ net' = connect(Step("connect"))
  /\ NetFrame

disconnectEvent ==
  /\ net' = disconnect(Step("disconnect"))
  /\ NetFrame

PeerNext ==
  \/ peerInit
  \/ peerClose
  \/ peerIsReady
  \/ connectEvent
  \/ disconnectEvent

SpecPeer == PeerInit /\ [][PeerNext]_vars

\* C40: once an init() has resolved, isOpen equals the connected flag of the
\* socket in every state; an init() resolves only with the socket connected;
\* and a close() of the initialised peer resolves with isOpen false and the
\* socket disconnected.
C40_ConnectionState ==
  /\ net.inited => net.isOpen = net.connected
  /\ (net.call = "init" /\ "init" \in net.resolved) => net.connected
  /\ (net.inited /\ net.call = "close" /\ "close" \in net.resolved) =>
       ~net.isOpen /\ ~net.connected

\* a close() of an initialised, connected peer has disconnected the socket
\* and resolved
C40_Witness ==
  /\ net.inited
  /\ net.call = "close"
  /\ "close" \in net.resolved
  /\ "resolveClose" \in Range(net.on["disconnect"])

====
